---- MODULE Spec2Model ----
(***************************************************************************)
(* Subtitle search aggregation (lib/providers), the provider adapters'     *)
(* query-variant search with its per-adapter TTL cache, and the TTL cache  *)
(* class of lib/utils.                                                     *)
(*                                                                         *)
(* Conventions.  A JavaScript string is a sequence of one-character        *)
(* strings.  The falsy arguments null and 0 of year, season and episode    *)
(* are both written 0: the code only ever tests them for truthiness        *)
(* (year || 'no-year', season && episode, results.length === 0 && year).   *)
(* An absent imdbId (null or '') is the empty string.  Date.now() is       *)
(* counted in milliseconds from the start of the process.                  *)
(*                                                                         *)
(* JavaScript runs a function to its next await without interruption, so   *)
(* an action is one such run: a call up to its first pending await, or the *)
(* continuation of a settled await up to the next one.                     *)
(***************************************************************************)
EXTENDS Integers, Sequences, FiniteSets, TLC

VARIABLES
    now,        \* Date.now()
    ticks,      \* how many times the clock has advanced
    calls,      \* how many top-level calls were started
    answers,    \* how many listing pages the origins have served
    req,        \* the arguments of the calls
    agg,        \* searchAllProviders: "idle", "waiting" (at allSettled), "done"
    aggregated, \* the list searchAllProviders returned
    prov,       \* per provider: its search() call and its module-level cache
    settled,    \* history: providers in the order their search() settled
    store,      \* a Cache instance exercised directly (its Map)
    storeTtl,   \* that instance's ttl
    wrote,      \* history: key -> the last set() on store
    lastOp,     \* the last operation on store and what it returned
    parse,      \* a call of parseStremioId: its argument and how it ended
    proxy,      \* a request to a /subtitle route: its parameters, the origin's
                \* answer and the response
    conv,       \* a text given to convertMicroDvdToSrt and what was served
    stamp,      \* a call of formatSrtTime on the frames of an entry
    meta,       \* lib/imdb: calls of getIMDBInfo and the module's cache
    site,       \* a call of getBaseUrl: the environment, the request, the URL
    sub,        \* api/index.js: requests to the subtitles handler in flight
                \* and the module's currentBaseUrl
    race        \* two calls of searchSubtitlesByQuery on one cache

vars == <<now, ticks, calls, answers, req, agg, aggregated, prov, settled,
          store, storeTtl, wrote, lastOp, parse, proxy, conv,
          stamp, meta, site, sub, race>>

searchVars == <<calls, answers, req, agg, aggregated, prov, settled>>

storeVars == <<store, storeTtl, wrote, lastOp>>

routeVars == <<parse, proxy, conv>>

hostVars == <<stamp, meta, site, sub, race>>

----------------------------------------------------------------------------
(* Bounds of the model *)

MaxCalls == 2
MaxTicks == 2
MaxAnswers == 2
MaxStoreNow == 4

(* Program constants *)

SearchTtl == 3600000
ResultCap == 20
DefaultTtl == 3600000

Providers == <<"subsunacs", "subsab">>

ProviderSet == {Providers[i] : i \in DOMAIN Providers}

Range(s) == {s[i] : i \in DOMAIN s}

Min(a, b) == IF a < b THEN a ELSE b

----------------------------------------------------------------------------
(* lib/utils: strings *)

WordChars == {"a", "b", "_", "-", "0", "1", "2", "3", "4", "5", "6", "7", "8", "9",
              "x", "S", "E"}

SpaceChars == {" ", "\t", "\n", "\r"}

\* .replace(/[^\w\s\-]/g, ' ')
ReplaceSpecial(s) ==
    [i \in DOMAIN s |-> IF s[i] \in WordChars \cup SpaceChars THEN s[i] ELSE " "]

\* .replace(/\s+/g, ' ')
RECURSIVE CollapseSpaces(_)
CollapseSpaces(s) ==
    IF s = <<>> THEN <<>>
    ELSE IF Head(s) \in SpaceChars
         THEN IF Len(s) > 1 /\ s[2] \in SpaceChars
              THEN CollapseSpaces(Tail(s))
              ELSE <<" ">> \o CollapseSpaces(Tail(s))
         ELSE <<Head(s)>> \o CollapseSpaces(Tail(s))

\* .trim()
RECURSIVE TrimStart(_)
TrimStart(s) ==
    IF s # <<>> /\ Head(s) \in SpaceChars THEN TrimStart(Tail(s)) ELSE s

RECURSIVE TrimEnd(_)
TrimEnd(s) ==
    IF s # <<>> /\ s[Len(s)] \in SpaceChars
    THEN TrimEnd(SubSeq(s, 1, Len(s) - 1))
    ELSE s

Trim(s) == TrimEnd(TrimStart(s))

sanitizeTitle(title) == Trim(CollapseSpaces(ReplaceSpecial(title)))

Digits == <<"0", "1", "2", "3", "4", "5", "6", "7", "8", "9">>

\* String(n) for an integer n >= 0
RECURSIVE ToStr(_)
ToStr(n) ==
    IF n < 10 THEN <<Digits[n + 1]>>
    ELSE ToStr(n \div 10) \o <<Digits[(n % 10) + 1]>>

\* .padStart(2, '0')
PadStart2(s) ==
    IF Len(s) >= 2 THEN s
    ELSE IF Len(s) = 1 THEN <<"0">> \o s
    ELSE <<"0", "0">>

formatSeriesTitle(title, season, episode) ==
    title \o <<" ">> \o ToStr(season) \o <<"x">> \o PadStart2(ToStr(episode))

----------------------------------------------------------------------------
(* lib/utils: class Cache.  A Map is a function on the keys it holds.       *)
(* get and has return a record: found = FALSE stands for null; cache is the *)
(* Map after the call.                                                      *)

\* a set that adds to the list stored before
CacheSetMerging(c, key, value, t, ttl) ==
    [k \in DOMAIN c \cup {key} |->
        IF k = key
        THEN [value |-> IF key \in DOMAIN c THEN c[key].value \o value ELSE value,
              expires |-> t + ttl]
        ELSE c[k]]

CacheSet(c, key, value, t, ttl) ==
    [k \in DOMAIN c \cup {key} |->
        IF k = key THEN [value |-> value, expires |-> t + ttl] ELSE c[k]]

CacheDelete(c, key) == [k \in DOMAIN c \ {key} |-> c[k]]

CacheGetNoExpiry(c, key, t) ==
    IF key \notin DOMAIN c
    THEN [found |-> FALSE, value |-> <<>>, cache |-> c]
    ELSE [found |-> TRUE, value |-> c[key].value, cache |-> c]

CacheGet(c, key, t) ==
    IF key \notin DOMAIN c
    THEN [found |-> FALSE, value |-> <<>>, cache |-> c]
    ELSE IF t > c[key].expires
         THEN [found |-> FALSE, value |-> <<>>, cache |-> CacheDelete(c, key)]
         ELSE [found |-> TRUE, value |-> c[key].value, cache |-> c]

CacheHasMapOnly(c, key, t) ==
    [found |-> key \in DOMAIN c, cache |-> c]

\* return this.get(key) !== null
CacheHas(c, key, t) ==
    LET g == CacheGet(c, key, t) IN [found |-> g.found, cache |-> g.cache]

----------------------------------------------------------------------------
(* lib/providers/subsunacs.js and lib/providers/subsab.js                   *)

EmptyMap == [k \in {} |-> 0]

\* A result record; the fields the aggregation reads are provider and id.
Rec(p, id) == [provider |-> p, id |-> id]

\* The listing's rows in document order; a row is the id its link carries,
\* or 0 for a row without a link or without an id in it (skipped).
RECURSIVE ParseListing(_, _)
ParseListing(p, rows) ==
    IF rows = <<>> THEN <<>>
    ELSE (IF Head(rows) = 0 THEN <<>> ELSE <<Rec(p, Head(rows))>>)
         \o ParseListing(p, Tail(rows))

\* results.slice(0, 20) in searchSubtitlesByQuery
LimitPage(rs) == SubSeq(rs, 1, Min(Len(rs), ResultCap))

LimitAggregateNone(rs) == rs

\* results.slice(0, 20) in aggregateSearch
LimitAggregate(rs) == SubSeq(rs, 1, Min(Len(rs), ResultCap))

CacheKey(p, searchTitle, year, imdbId) ==
    IF p = "subsunacs"
    THEN <<"subsunacs", searchTitle, year>>
    ELSE <<"subsab", searchTitle, year, imdbId>>

\* what aggregateSearch puts in seenIds for an item
SeenKey(p, item) ==
    IF p = "subsunacs" THEN <<item.id>> ELSE <<item.provider, item.id>>

RECURSIVE Dedupe(_, _, _, _)
Dedupe(p, res, seen, qr) ==
    IF qr = <<>> THEN [results |-> res, seenIds |-> seen]
    ELSE LET item == Head(qr)
             k == SeenKey(p, item)
         IN IF k \in seen
            THEN Dedupe(p, res, seen, Tail(qr))
            ELSE Dedupe(p, Append(res, item), seen \cup {k}, Tail(qr))

MergeResultsNoDedupe(p, res, seen, qr) ==
    [results |-> res \o qr, seenIds |-> seen]

\* the inner for loop of aggregateSearch
MergeResults(p, res, seen, qr) == Dedupe(p, res, seen, qr)

\* addQuery
AddQuery(qs, q) == IF q = <<>> \/ q \in Range(qs) THEN qs ELSE Append(qs, q)

Truthy(n) == n # 0

BuildQueries(p, baseTitle, season, episode) ==
    IF Truthy(season) /\ Truthy(episode)
    THEN LET seasonPadded == PadStart2(ToStr(season))
             episodePadded == PadStart2(ToStr(episode))
             plain == formatSeriesTitle(baseTitle, season, episode)
             padded == baseTitle \o <<" ">> \o seasonPadded \o <<"x">> \o episodePadded
             unpadded == baseTitle \o <<" ">> \o ToStr(season) \o <<"x">> \o episodePadded
             sxxeyy == baseTitle \o <<" ", "S">> \o seasonPadded \o <<"E">> \o episodePadded
         IN IF p = "subsunacs"
            THEN AddQuery(AddQuery(AddQuery(<<>>, plain), padded), sxxeyy)
            ELSE AddQuery(AddQuery(AddQuery(<<>>, unpadded), sxxeyy), plain)
    ELSE AddQuery(<<>>, baseTitle)

\* the query list of the pass-th aggregateSearch call of search():
\* [queries[0]], queries.slice(1), queries
PassQueries(qs, ps) ==
    IF ps = 1 THEN <<qs[1]>>
    ELSE IF ps = 2 THEN SubSeq(qs, 2, Len(qs))
    ELSE qs

\* the year that call passes on: year, year, null
PassYear(year, ps) == IF ps = 3 THEN 0 ELSE year

AfterPassNoRetry(ps, out, qs, year) ==
    IF ps = 1 /\ out = <<>> /\ Len(qs) > 1 THEN 2 ELSE 0

\* what search() does with the list a pass returned: the next pass, or 0 to return it
AfterPass(ps, out, qs, year) ==
    IF ps = 1 /\ out = <<>> /\ Len(qs) > 1 THEN 2
    ELSE IF ps \in {1, 2} /\ out = <<>> /\ Truthy(year) THEN 3
    ELSE 0

MoreQueriesFirstNonEmpty(merged, i, n) == merged = 0 /\ i < n

\* aggregateSearch's loop goes on to the next query
MoreQueries(merged, i, n) == merged < ResultCap /\ i < n


----------------------------------------------------------------------------
(* One provider's search(): its locals, where it stands, and the module's   *)
(* cache.  pc: "idle" (never called), "http" (awaiting the POST), "hit"     *)
(* (searchSubtitlesByQuery returned from the cache branch; aggregateSearch  *)
(* resumes with pending), "lookup" (about to call searchSubtitlesByQuery;   *)
(* only inside an action), "fulfilled", "rejected".  log, parsed and asked   *)
(* are history: the searchSubtitlesByQuery calls of this search() that have *)
(* returned, per cache key the last listing parsed from upstream and when,  *)
(* and the key and time of the last cache.has.                              *)

NoPending == [found |-> FALSE, value |-> <<>>]

NotAsked == [key |-> <<>>, at |-> 0]

InitProv ==
    [pc |-> "idle", queries |-> <<>>, pass |-> 0, qi |-> 0, results |-> <<>>,
     seenIds |-> {}, pending |-> NoPending, ret |-> <<>>, log |-> <<>>,
     cache |-> EmptyMap, parsed |-> EmptyMap, asked |-> NotAsked]

Active(p) == prov[p].pc \in {"http", "hit"}

Settled(p) == prov[p].pc \in {"fulfilled", "rejected"}

CurQuery(st) == PassQueries(st.queries, st.pass)[st.qi]

CurYear(st, r) == PassYear(r.year, st.pass)

CurKey(p, st, r) == CacheKey(p, CurQuery(st), CurYear(st, r), r.imdbId)

LogEntry(st, r, got, src, merged) ==
    [pass |-> st.pass, query |-> CurQuery(st), year |-> CurYear(st, r),
     got |-> got, src |-> src, merged |-> merged]

\* search() from its call to its first aggregateSearch call
Begin(p, st, r) ==
    LET baseTitle == sanitizeTitle(r.title)
        qs == BuildQueries(p, baseTitle, r.season, r.episode)
        fresh == [st EXCEPT !.queries = <<>>, !.pass = 0, !.qi = 0, !.results = <<>>,
                            !.seenIds = {}, !.pending = NoPending, !.ret = <<>>,
                            !.log = <<>>]
    IN IF baseTitle = <<>> \/ qs = <<>>
       THEN [fresh EXCEPT !.pc = "fulfilled"]
       ELSE [fresh EXCEPT !.pc = "lookup", !.queries = qs, !.pass = 1, !.qi = 1]

\* searchSubtitlesByQuery from its call to its await or its return: cache.has
\* at time t, then on a hit cache.get at time t + d, on a miss the POST
EnterLookup(p, st, r, t, d) ==
    LET key == CurKey(p, st, r)
        h == CacheHas(st.cache, key, t)
    IN IF h.found
       THEN LET g == CacheGet(h.cache, key, t + d)
            IN [st EXCEPT !.pc = "hit", !.cache = g.cache,
                          !.pending = [found |-> g.found, value |-> g.value],
                          !.asked = [key |-> key, at |-> t]]
       ELSE [st EXCEPT !.pc = "http", !.cache = h.cache,
                       !.asked = [key |-> key, at |-> t]]

\* searchSubtitlesByQuery returned qr: the rest of aggregateSearch's loop body,
\* and of search() when the loop ends, up to the next searchSubtitlesByQuery call
AfterQuery(p, st, r, qr, src) ==
    LET d == MergeResults(p, st.results, st.seenIds, qr)
        n == Len(PassQueries(st.queries, st.pass))
        more == MoreQueries(Len(d.results), st.qi, n)
        out == LimitAggregate(d.results)
        nxt == AfterPass(st.pass, out, st.queries, r.year)
        logged == [st EXCEPT !.log = Append(@, LogEntry(st, r, qr, src, Len(d.results))),
                             !.pending = NoPending]
    IN IF more
       THEN [logged EXCEPT !.pc = "lookup", !.qi = @ + 1,
                           !.results = d.results, !.seenIds = d.seenIds]
       ELSE IF nxt # 0
       THEN [logged EXCEPT !.pc = "lookup", !.pass = nxt, !.qi = 1,
                           !.results = <<>>, !.seenIds = {}]
       ELSE [logged EXCEPT !.pc = "fulfilled", !.ret = out,
                           !.results = <<>>, !.seenIds = {}]

\* searchSubtitlesByQuery returned null: iterating it throws, search() rejects
AfterNull(p, st, r) ==
    [st EXCEPT !.pc = "rejected", !.pending = NoPending, !.results = <<>>,
               !.seenIds = {},
               !.log = Append(@, LogEntry(st, r, <<>>, "null", Len(st.results)))]

\* the run goes on into the next searchSubtitlesByQuery call, if there is one
Proceed(p, st, r, t, d) ==
    IF st.pc = "lookup" THEN EnterLookup(p, st, r, t, d) ELSE st

\* the clock can only be seen to move between cache.has and cache.get
DriftOk(p, st, r, t, d) ==
    \/ d = 0
    \/ /\ d = 1
       /\ ticks < MaxTicks
       /\ st.pc = "lookup"
       /\ CacheHas(st.cache, CurKey(p, st, r), t).found

\* the listing parsed and returned, with cache.set left out
AfterListingNoStore(p, st, r, rows, t) ==
    LET limitedResults == LimitPage(ParseListing(p, rows))
        key == CurKey(p, st, r)
        stored == [st EXCEPT
                     !.parsed = [k \in DOMAIN st.parsed \cup {key} |->
                                   IF k = key THEN [at |-> t, list |-> limitedResults]
                                   ELSE st.parsed[k]]]
    IN AfterQuery(p, stored, r, limitedResults, "upstream")

\* the POST resolved with a listing: the rest of searchSubtitlesByQuery's try block
AfterListing(p, st, r, rows, t) ==
    LET limitedResults == LimitPage(ParseListing(p, rows))
        key == CurKey(p, st, r)
        stored == [st EXCEPT
                     !.cache = CacheSet(st.cache, key, limitedResults, t, SearchTtl),
                     !.parsed = [k \in DOMAIN st.parsed \cup {key} |->
                                   IF k = key THEN [at |-> t, list |-> limitedResults]
                                   ELSE st.parsed[k]]]
    IN AfterQuery(p, stored, r, limitedResults, "upstream")

\* the POST rejected, or parsing threw: searchSubtitlesByQuery's catch block
AfterFailure(p, st, r) == AfterQuery(p, st, r, <<>>, "failed")

----------------------------------------------------------------------------
(* The environment: arguments of a call, and what an origin answers *)

Request(t, y, s, e, i) ==
    [title |-> t, year |-> y, season |-> s, episode |-> e, imdbId |-> i]

\* repeated calls: an empty title; a title of white space; a film, with and
\* without its year
Requests ==
    {Request(<<>>, 0, 0, 0, ""),
     Request(<<" ", "\t">>, 1999, 1, 5, "tt0133093"),
     Request(<<"a", "!">>, 1999, 0, 0, "tt0133093"),
     Request(<<"a", "!">>, 0, 0, 0, "")}

\* one call: also an episode, its season of one digit or of two, with and
\* without its year
ColdRequests ==
    Requests \cup {Request(<<"a", "!">>, 1999, 1, 5, "tt0133093"),
                   Request(<<"a", "!">>, 0, 12, 5, "")}

\* listings: none; three rows, one without an id and two with the same id;
\* one row more than the cap
PageEmpty == <<>>

PageDup == <<ResultCap + 2, 0, ResultCap + 2, ResultCap + 3>>

PageBig == [i \in 1..(ResultCap + 1) |-> i]

UpstreamOutcomes ==
    {[kind |-> "error", rows |-> <<>>], [kind |-> "garbage", rows |-> <<>>]}
    \cup {[kind |-> "html", rows |-> r] : r \in {PageEmpty, PageDup, PageBig}}

----------------------------------------------------------------------------
(* Actions *)

\* searchAllProviders(title, year, season, episode, imdbId) is called: both
\* search() calls run to their first await, subsunacs first, then the
\* function waits at Promise.allSettled
CallSearchAll ==
    /\ agg \in {"idle", "done"}
    /\ \A p \in ProviderSet : ~Active(p)
    /\ \E d1 \in {0, 1}, d2 \in {0, 1} :
         LET b1 == Begin("subsunacs", prov["subsunacs"], req)
             b2 == Begin("subsab", prov["subsab"], req)
             new == [p \in ProviderSet |->
                       IF p = "subsunacs"
                       THEN Proceed(p, b1, req, now, d1)
                       ELSE Proceed(p, b2, req, now + d1, d2)]
         IN /\ DriftOk("subsunacs", b1, req, now, d1)
            /\ DriftOk("subsab", b2, req, now + d1, d2)
            /\ d1 + d2 <= MaxTicks - ticks
            /\ prov' = new
            /\ now' = now + d1 + d2
            /\ ticks' = ticks + d1 + d2
            /\ settled' = SelectSeq(Providers,
                              LAMBDA p : new[p].pc \in {"fulfilled", "rejected"})
    /\ calls' = calls + 1
    /\ agg' = "waiting"
    /\ aggregated' = <<>>
    /\ UNCHANGED <<answers, req>>
    /\ UNCHANGED storeVars
    /\ UNCHANGED routeVars
    /\ UNCHANGED hostVars

StartSearchAll == calls < MaxCalls /\ CallSearchAll

\* the first call of the process
ColdSearchAll == calls = 0 /\ CallSearchAll

\* a run of p ended in state new at clock offset d
Ran(p, new, d) ==
    /\ prov' = [prov EXCEPT ![p] = new]
    /\ now' = now + d
    /\ ticks' = ticks + d
    /\ settled' = IF new.pc \in {"fulfilled", "rejected"}
                  THEN Append(settled, p) ELSE settled

\* the POST settles; budgeted: the origins serve MaxAnswers listings at most
Settle(p, budgeted) ==
    /\ prov[p].pc = "http"
    /\ \E o \in UpstreamOutcomes, d \in {0, 1} :
         IF o.kind = "html"
         THEN /\ budgeted => answers < MaxAnswers
              /\ answers' = answers + 1
              /\ LET s1 == AfterListing(p, prov[p], req, o.rows, now)
                 IN /\ DriftOk(p, s1, req, now, d)
                    /\ Ran(p, Proceed(p, s1, req, now, d), d)
         ELSE /\ UNCHANGED answers
              /\ LET s1 == AfterFailure(p, prov[p], req)
                 IN /\ DriftOk(p, s1, req, now, d)
                    /\ Ran(p, Proceed(p, s1, req, now, d), d)
    /\ UNCHANGED <<calls, req, agg, aggregated>>
    /\ UNCHANGED storeVars
    /\ UNCHANGED routeVars
    /\ UNCHANGED hostVars

Respond(p) == Settle(p, TRUE)

RespondCold(p) == Settle(p, FALSE)

\* aggregateSearch resumes with what the cache branch returned
Resume(p) ==
    /\ prov[p].pc = "hit"
    /\ \E d \in {0, 1} :
         LET s1 == IF prov[p].pending.found
                   THEN AfterQuery(p, prov[p], req, prov[p].pending.value, "cache")
                   ELSE AfterNull(p, prov[p], req)
         IN /\ DriftOk(p, s1, req, now, d)
            /\ Ran(p, Proceed(p, s1, req, now, d), d)
    /\ UNCHANGED <<calls, answers, req, agg, aggregated>>
    /\ UNCHANGED storeVars
    /\ UNCHANGED routeVars
    /\ UNCHANGED hostVars

AnySettled == \E p \in ProviderSet : Settled(p)

\* Promise.allSettled resolves
AllSettled == \A p \in ProviderSet : Settled(p)

\* what the promise with its .catch handler resolves to
CaughtValue(p) == IF prov[p].pc = "fulfilled" THEN prov[p].ret ELSE <<>>

MergeOrderBySettle == settled

\* the order of searchPromises
MergeOrder == Providers

RECURSIVE Flatten(_)
Flatten(order) ==
    IF order = <<>> THEN <<>> ELSE CaughtValue(Head(order)) \o Flatten(Tail(order))

\* searchAllProviders after the await
Aggregate ==
    /\ agg = "waiting"
    /\ AllSettled
    /\ aggregated' = Flatten(MergeOrder)
    /\ agg' = "done"
    /\ UNCHANGED <<now, ticks, calls, answers, req, prov, settled>>
    /\ UNCHANGED storeVars
    /\ UNCHANGED routeVars
    /\ UNCHANGED hostVars

\* an hour passes between calls
Tick ==
    /\ \A p \in ProviderSet : ~Active(p)
    /\ agg # "waiting"
    /\ ticks < MaxTicks
    /\ now' = now + SearchTtl
    /\ ticks' = ticks + 1
    /\ UNCHANGED searchVars
    /\ UNCHANGED storeVars
    /\ UNCHANGED routeVars
    /\ UNCHANGED hostVars

\* nothing has been parsed, requested or converted
ParseIdle == [pc |-> "idle", id |-> <<>>]

ProxyIdle == [pc |-> "idle"]

ConvIdle == [pc |-> "idle"]

StampIdle == [pc |-> "idle"]

MetaIdle == [pc |-> "idle"]

SiteIdle == [pc |-> "idle"]

SubIdle == [pc |-> "idle"]

RaceIdle == [pc |-> "idle"]

PagesIdle ==
    /\ parse = ParseIdle
    /\ proxy = ProxyIdle
    /\ conv = ConvIdle

RouteIdle ==
    /\ PagesIdle
    /\ stamp = StampIdle
    /\ meta = MetaIdle
    /\ site = SiteIdle
    /\ sub = SubIdle
    /\ race = RaceIdle

NoOp == [op |-> "none", key |-> "", found |-> FALSE, value |-> 0, at |-> 0,
         before |-> EmptyMap]

InitSearch ==
    /\ now = 0
    /\ ticks = 0
    /\ calls = 0
    /\ answers = 0
    /\ req \in Requests
    /\ agg = "idle"
    /\ aggregated = <<>>
    /\ prov = [p \in ProviderSet |-> InitProv]
    /\ settled = <<>>

Init ==
    /\ InitSearch
    /\ store = EmptyMap
    /\ storeTtl = DefaultTtl
    /\ wrote = EmptyMap
    /\ lastOp = NoOp
    /\ RouteIdle

Next ==
    \/ StartSearchAll
    \/ \E p \in ProviderSet : Respond(p)
    \/ \E p \in ProviderSet : Resume(p)
    \/ Aggregate
    \/ Tick

Spec == Init /\ [][Next]_vars

InitCold ==
    /\ now = 0
    /\ ticks = 0
    /\ calls = 0
    /\ answers = 0
    /\ req \in ColdRequests
    /\ agg = "idle"
    /\ aggregated = <<>>
    /\ prov = [p \in ProviderSet |-> InitProv]
    /\ settled = <<>>
    /\ store = EmptyMap
    /\ storeTtl = DefaultTtl
    /\ wrote = EmptyMap
    /\ lastOp = NoOp
    /\ RouteIdle

NextCold ==
    \/ ColdSearchAll
    \/ \E p \in ProviderSet : RespondCold(p)
    \/ Aggregate

SpecCold == InitCold /\ [][NextCold]_vars

----------------------------------------------------------------------------
(* class Cache on its own: an instance built with some ttl, and set, get    *)
(* and has called on it in any order while the clock runs                   *)

StoreKeys == {"k1", "k2"}

StoreValues == {7, 8}

StoreTtls == {1, 2, DefaultTtl}

StoreSet(k, v) ==
    /\ store' = CacheSet(store, k, v, now, storeTtl)
    /\ wrote' = [x \in DOMAIN wrote \cup {k} |->
                   IF x = k THEN [at |-> now, value |-> v] ELSE wrote[x]]
    /\ lastOp' = [op |-> "set", key |-> k, found |-> TRUE, value |-> v, at |-> now,
                  before |-> store]
    /\ UNCHANGED <<now, ticks, storeTtl>>
    /\ UNCHANGED searchVars
    /\ UNCHANGED routeVars
    /\ UNCHANGED hostVars

StoreGet(k) ==
    /\ LET g == CacheGet(store, k, now)
       IN /\ store' = g.cache
          /\ lastOp' = [op |-> "get", key |-> k, found |-> g.found,
                        value |-> IF g.found THEN g.value ELSE 0, at |-> now,
                        before |-> store]
    /\ UNCHANGED <<now, ticks, storeTtl, wrote>>
    /\ UNCHANGED searchVars
    /\ UNCHANGED routeVars
    /\ UNCHANGED hostVars

StoreHas(k) ==
    /\ LET h == CacheHas(store, k, now)
       IN /\ store' = h.cache
          /\ lastOp' = [op |-> "has", key |-> k, found |-> h.found, value |-> 0,
                        at |-> now, before |-> store]
    /\ UNCHANGED <<now, ticks, storeTtl, wrote>>
    /\ UNCHANGED searchVars
    /\ UNCHANGED routeVars
    /\ UNCHANGED hostVars

StoreTick ==
    /\ now < MaxStoreNow
    /\ now' = now + 1
    /\ UNCHANGED <<ticks, store, storeTtl, wrote, lastOp>>
    /\ UNCHANGED searchVars
    /\ UNCHANGED routeVars
    /\ UNCHANGED hostVars

InitCache ==
    /\ now = 0
    /\ ticks = 0
    /\ calls = 0
    /\ answers = 0
    /\ req = Request(<<>>, 0, 0, 0, "")
    /\ agg = "idle"
    /\ aggregated = <<>>
    /\ prov = [p \in ProviderSet |-> InitProv]
    /\ settled = <<>>
    /\ store = EmptyMap
    /\ storeTtl \in StoreTtls
    /\ wrote = EmptyMap
    /\ lastOp = NoOp
    /\ RouteIdle

NextCache ==
    \/ \E k \in StoreKeys, v \in StoreValues : StoreSet(k, v)
    \/ \E k \in StoreKeys : StoreGet(k)
    \/ \E k \in StoreKeys : StoreHas(k)
    \/ StoreTick

SpecCache == InitCache /\ [][NextCache]_vars

----------------------------------------------------------------------------
(* Properties *)

NoDuplicates(list) ==
    \A i, j \in DOMAIN list :
        i # j => ~(list[i].provider = list[j].provider /\ list[i].id = list[j].id)

Ids(list) == {list[i].id : i \in DOMAIN list}

Contains(list, item) == \E i \in DOMAIN list : list[i] = item

\* C1: the list searchAllProviders returns never holds two records with the
\* same (provider, id) pair, whatever the listings repeat.
C1_UniquePairs == agg = "done" => NoDuplicates(aggregated)

\* a call has returned records although one listing repeated an id within the
\* page and two variants of the same pass listed the same id
C1_Witness ==
    /\ agg = "done"
    /\ aggregated # <<>>
    /\ \E p \in ProviderSet :
         \E i, j \in DOMAIN prov[p].log :
            /\ i < j
            /\ prov[p].log[i].pass = prov[p].log[j].pass
            /\ ~NoDuplicates(prov[p].log[i].got)
            /\ Ids(prov[p].log[i].got) \cap Ids(prov[p].log[j].got) # {}

\* C2: searchAllProviders returns only once every provider's search() has
\* settled, and a provider whose search() rejected does not keep any record of
\* a provider whose search() fulfilled out of the returned list.
C2_WaitsForAllKeepsOthers ==
    agg = "done" =>
        /\ \A p \in ProviderSet : prov[p].pc \in {"fulfilled", "rejected"}
        /\ \A p \in ProviderSet :
             prov[p].pc = "fulfilled" =>
                 \A i \in DOMAIN prov[p].ret : Contains(aggregated, prov[p].ret[i])

\* a call has returned after one provider's search() rejected and the other
\* fulfilled with records
C2_Witness ==
    /\ agg = "done"
    /\ \E p, q \in ProviderSet :
         /\ prov[p].pc = "rejected"
         /\ prov[q].pc = "fulfilled"
         /\ prov[q].ret # <<>>

\* C3: the returned list is subsunacs's list followed by subsab's list, in
\* whatever order the two searches settled, with nothing dropped or capped.
C3_RegistrationOrder ==
    agg = "done" => aggregated = prov["subsunacs"].ret \o prov["subsab"].ret

\* subsab settled first, both returned records, and the call returned more
\* records than one provider's cap
C3_Witness ==
    /\ agg = "done"
    /\ settled = <<"subsab", "subsunacs">>
    /\ prov["subsunacs"].ret # <<>>
    /\ prov["subsab"].ret # <<>>
    /\ Len(aggregated) > ResultCap

\* C4: search() never rejects; a query whose request failed or whose listing
\* could not be parsed contributes the empty list; and a title that is empty
\* after sanitizing gives the empty list with no request and no cache write.
C4_SearchNeverRaises ==
    \A p \in ProviderSet :
        /\ prov[p].pc # "rejected"
        /\ \A i \in DOMAIN prov[p].log :
             prov[p].log[i].src = "failed" => prov[p].log[i].got = <<>>
        /\ (sanitizeTitle(req.title) = <<>> /\ calls > 0) =>
               /\ prov[p].pc = "fulfilled"
               /\ prov[p].ret = <<>>
               /\ prov[p].log = <<>>
               /\ prov[p].cache = EmptyMap

\* the part of the pass a log entry belongs to that shares one year filter:
\* the first two aggregateSearch calls carry the year, the third carries none
YearPass(e) == IF e.pass = 3 THEN "retry" ELSE "initial"

\* the log entries of the pass-th aggregateSearch call, in order
PassLog(p, ps) == SelectSeq(prov[p].log, LAMBDA e : e.pass = ps)

IsPrefix(s, t) == Len(s) <= Len(t) /\ \A i \in DOMAIN s : s[i] = t[i]

QueriesOf(entries) == [i \in DOMAIN entries |-> entries[i].query]

\* every pass asks its variants in their fixed order
InFixedOrder(p) ==
    /\ \A ps \in 1..3 :
         prov[p].queries # <<>> =>
             IsPrefix(QueriesOf(PassLog(p, ps)), PassQueries(prov[p].queries, ps))
    /\ \A i, j \in DOMAIN prov[p].log :
         i < j => prov[p].log[i].pass <= prov[p].log[j].pass

\* C5 as stated: within one year-filter pass the variants are asked in their
\* fixed order and none is asked after one that returned a record.
C5_StopsAtFirstNonEmpty ==
    \A p \in ProviderSet :
        /\ InFixedOrder(p)
        /\ \A i, j \in DOMAIN prov[p].log :
             (i < j /\ YearPass(prov[p].log[i]) = YearPass(prov[p].log[j]))
                 => prov[p].log[i].got = <<>>

\* C5 as amended: the variants are asked in their fixed order; the first
\* variant of the initial pass is asked alone, and a later variant is asked
\* only if it returned nothing; after that, and throughout the retry pass,
\* the records of the variants are merged and the next variant is asked
\* exactly while the merged list holds fewer than 20 records.
C5_StopsAtFirstOrAtCap ==
    \A p \in ProviderSet :
        /\ InFixedOrder(p)
        /\ \A i, j \in DOMAIN prov[p].log :
             i < j =>
                /\ (prov[p].log[i].pass = 1 /\ prov[p].log[j].pass = 2)
                       => prov[p].log[i].got = <<>>
                /\ prov[p].log[i].pass = prov[p].log[j].pass
                       => prov[p].log[i].merged < ResultCap
        /\ (prov[p].pc = "fulfilled" /\ prov[p].log # <<>>) =>
               LET last == prov[p].log[Len(prov[p].log)]
                   asked == PassQueries(prov[p].queries, last.pass)
               IN last.merged >= ResultCap \/ last.query = asked[Len(asked)]

\* a search() has returned after a variant that was not the first returned
\* records and the next variant was asked all the same
C5_Witness ==
    \E p \in ProviderSet :
        /\ prov[p].pc = "fulfilled"
        /\ \E i, j \in DOMAIN prov[p].log :
             /\ i < j
             /\ prov[p].log[i].pass = prov[p].log[j].pass
             /\ prov[p].log[i].got # <<>>

RetryRan(p) == \E i \in DOMAIN prov[p].log : prov[p].log[i].pass = 3

YearPassEmpty(p) ==
    \A i \in DOMAIN prov[p].log :
        prov[p].log[i].pass \in {1, 2} => prov[p].log[i].got = <<>>

\* C6: the variants are asked again without the year filter exactly when a
\* year was given and every variant asked with it returned nothing; the retry
\* asks the same variants in the same order, with no year; with no year given,
\* or once a variant returned a record, there is no retry.
C6_RetryWithoutYear ==
    \A p \in ProviderSet :
        /\ RetryRan(p) =>
              /\ req.year # 0
              /\ YearPassEmpty(p)
              /\ {e.query : e \in {f \in Range(prov[p].log) : f.pass \in {1, 2}}}
                     = Range(prov[p].queries)
              /\ IsPrefix(QueriesOf(PassLog(p, 3)), prov[p].queries)
        /\ \A i \in DOMAIN prov[p].log :
             prov[p].log[i].year = IF prov[p].log[i].pass = 3 THEN 0 ELSE req.year
        /\ (prov[p].pc = "fulfilled" /\ prov[p].log # <<>>
              /\ req.year # 0 /\ YearPassEmpty(p)) =>
               /\ RetryRan(p)
               /\ \/ Len(PassLog(p, 3)) = Len(prov[p].queries)
                  \/ Len(prov[p].ret) = ResultCap

\* a search() with three variants found nothing with the year and returned
\* records found without it
C6_Witness ==
    \E p \in ProviderSet :
        /\ prov[p].pc = "fulfilled"
        /\ Len(prov[p].queries) = 3
        /\ RetryRan(p)
        /\ prov[p].ret # <<>>

\* C7: a search() returns 20 records at most.
C7_AtMostCap ==
    \A p \in ProviderSet : prov[p].pc = "fulfilled" => Len(prov[p].ret) <= ResultCap

\* a search() returned 20 records after merging two variants' listings that
\* together held more
C7_Witness ==
    \E p \in ProviderSet :
        /\ prov[p].pc = "fulfilled"
        /\ Len(prov[p].ret) = ResultCap
        /\ Len(prov[p].log) >= 2
        /\ prov[p].log[Len(prov[p].log)].merged > ResultCap

\* the last cache.has of p asked for a key whose listing was parsed less than,
\* or more than, an hour before
Fresh(p) ==
    /\ prov[p].asked.key \in DOMAIN prov[p].parsed
    /\ prov[p].asked.at - prov[p].parsed[prov[p].asked.key].at < SearchTtl

Stale(p) ==
    /\ prov[p].asked.key \in DOMAIN prov[p].parsed
    /\ prov[p].asked.at - prov[p].parsed[prov[p].asked.key].at > SearchTtl

Live(key, t) == key \in DOMAIN wrote /\ t <= wrote[key].at + storeTtl

Expired(key, t) == key \in DOMAIN wrote /\ t > wrote[key].at + storeTtl

\* C9: get(k) at the time of set(k, v) returns v; get(k) after the ttl has
\* run out returns null, and so does has(k) return false.
C9_SetGetExpire ==
    /\ (lastOp.op = "get" /\ lastOp.key \in DOMAIN wrote
          /\ lastOp.at = wrote[lastOp.key].at) =>
           (lastOp.found /\ lastOp.value = wrote[lastOp.key].value)
    /\ (lastOp.op = "get" /\ Expired(lastOp.key, lastOp.at)) => ~lastOp.found
    /\ (lastOp.op = "has" /\ Expired(lastOp.key, lastOp.at)) => ~lastOp.found

\* has(k) has answered false after the ttl of k ran out and a get(k) had
\* removed the entry
C9_Witness ==
    /\ lastOp.op = "has"
    /\ Expired(lastOp.key, lastOp.at)
    /\ ~lastOp.found
    /\ lastOp.key \notin DOMAIN lastOp.before

\* C10 as stated: has(k) is true exactly when get(k) would return the value,
\* and has never changes the Map.
C10_HasChangesNothing ==
    /\ lastOp.op \in {"get", "has"} => (lastOp.found <=> Live(lastOp.key, lastOp.at))
    /\ lastOp.op = "has" => store = lastOp.before

\* C10 as amended: has(k) is true exactly when get(k) would return the value;
\* has adds no entry, replaces none and leaves every entry that has not
\* expired; the one change it can make is to remove the entry of k when that
\* entry has expired.
C10_HasRemovesOnlyExpired ==
    /\ lastOp.op \in {"get", "has"} => (lastOp.found <=> Live(lastOp.key, lastOp.at))
    /\ lastOp.op = "has" =>
          \/ store = lastOp.before
          \/ /\ lastOp.key \in DOMAIN lastOp.before
             /\ lastOp.at > lastOp.before[lastOp.key].expires
             /\ DOMAIN store = DOMAIN lastOp.before \ {lastOp.key}
             /\ \A k \in DOMAIN store : store[k] = lastOp.before[k]

\* has(k) has removed the expired entry of k while another entry stayed
C10_Witness ==
    /\ lastOp.op = "has"
    /\ store # lastOp.before
    /\ store # EmptyMap

----------------------------------------------------------------------------
(* lib/utils: parseStremioId.  The object returned is a record with the     *)
(* keys the code gives it: a movie has no season and no episode key.        *)

MaxNumber == 12

\* id.split(':')
RECURSIVE Split(_, _)
Split(s, sep) ==
    IF \A i \in DOMAIN s : s[i] # sep THEN <<s>>
    ELSE LET k == CHOOSE i \in DOMAIN s :
                      s[i] = sep /\ \A j \in 1..(i - 1) : s[j] # sep
         IN <<SubSeq(s, 1, k - 1)>> \o Split(SubSeq(s, k + 1, Len(s)), sep)

DigitChars == Range(Digits)

DigitValue(c) == (CHOOSE i \in DOMAIN Digits : Digits[i] = c) - 1

\* the longest run of decimal digits s starts with
RECURSIVE DigitPrefix(_)
DigitPrefix(s) ==
    IF s # <<>> /\ Head(s) \in DigitChars
    THEN <<Head(s)>> \o DigitPrefix(Tail(s))
    ELSE <<>>

DigitsValueLastDigit(ds) == IF ds = <<>> THEN 0 ELSE DigitValue(ds[Len(ds)])

RECURSIVE DigitsValue(_)
DigitsValue(ds) ==
    IF ds = <<>> THEN 0
    ELSE 10 * DigitsValue(SubSeq(ds, 1, Len(ds) - 1)) + DigitValue(ds[Len(ds)])

\* parseInt(s, 10): white space is skipped, a sign is read, then the digits
\* up to the first character that is none; nan stands for NaN
ParseInt(s) ==
    LET t == TrimStart(s)
        signed == t # <<>> /\ Head(t) \in {"-", "+"}
        body == IF signed THEN Tail(t) ELSE t
        ds == DigitPrefix(body)
    IN IF ds = <<>> THEN [nan |-> TRUE, value |-> 0]
       ELSE [nan |-> FALSE,
             value |-> IF signed /\ Head(t) = "-"
                       THEN 0 - DigitsValue(ds) ELSE DigitsValue(ds)]

\* how parseStremioId(id) ends: the object returned, or the Error thrown
parseStremioId(id) ==
    LET parts == Split(id, ":")
    IN IF Len(parts) = 1
       THEN [pc |-> "returned", id |-> id,
             out |-> [imdbId |-> parts[1], type |-> "movie"]]
       ELSE IF Len(parts) >= 3
       THEN LET season == ParseInt(parts[2])
                episode == ParseInt(parts[3])
            IN IF season.nan \/ episode.nan
               THEN [pc |-> "threw", id |-> id,
                     out |-> [error |-> "Invalid Stremio ID format"]]
               ELSE [pc |-> "returned", id |-> id,
                     out |-> [imdbId |-> parts[1], type |-> "series",
                              season |-> season.value, episode |-> episode.value]]
       ELSE [pc |-> "threw", id |-> id,
             out |-> [error |-> "Invalid Stremio ID format"]]

RECURSIVE Join(_, _)
Join(parts, sep) ==
    IF Len(parts) = 1 THEN parts[1]
    ELSE parts[1] \o <<sep>> \o Join(Tail(parts), sep)

\* arguments: an IMDB id, alone or followed by up to three more segments,
\* each a number, a number with something before or after it, or no number
ImdbIds == {<<"t", "t", "1">>, <<>>}

Segments ==
    {ToStr(n) : n \in 1..MaxNumber}
    \cup {<<"0", "5">>, <<"0">>, <<"-", "1">>, <<"+", "2">>, <<"1", "a">>,
          <<" ", "3">>, <<"a">>, <<"a", "1">>, <<>>}

StremioIds ==
    {Join(<<i>> \o rest, ":") :
        i \in ImdbIds,
        rest \in UNION {[1..n -> Segments] : n \in 0..2}}
    \cup {Join(<<i, s, s, t>>, ":") : i \in ImdbIds, s \in {<<"1">>, <<"a">>},
                                      t \in {<<"9">>, <<>>}}

CallParse ==
    /\ parse.pc = "idle"
    /\ \E id \in StremioIds : parse' = [pc |-> "called", id |-> id]
    /\ UNCHANGED <<now, ticks, proxy, conv>>
    /\ UNCHANGED searchVars
    /\ UNCHANGED storeVars
    /\ UNCHANGED hostVars

RunParse ==
    /\ parse.pc = "called"
    /\ parse' = parseStremioId(parse.id)
    /\ UNCHANGED <<now, ticks, proxy, conv>>
    /\ UNCHANGED searchVars
    /\ UNCHANGED storeVars
    /\ UNCHANGED hostVars

\* no search, no cache operation
SearchIdle ==
    /\ now = 0
    /\ ticks = 0
    /\ calls = 0
    /\ answers = 0
    /\ req = Request(<<>>, 0, 0, 0, "")
    /\ agg = "idle"
    /\ aggregated = <<>>
    /\ prov = [p \in ProviderSet |-> InitProv]
    /\ settled = <<>>
    /\ store = EmptyMap
    /\ storeTtl = DefaultTtl
    /\ wrote = EmptyMap
    /\ lastOp = NoOp

InitParse == SearchIdle /\ RouteIdle

NextParse == CallParse \/ RunParse

SpecParse == InitParse /\ [][NextParse]_vars

ParseEnded == parse.pc \in {"returned", "threw"}

HasKey(r, k) == k \in DOMAIN r

\* C11: an id of one segment parses to that id as a movie, with no season and
\* no episode; "<id>:<S>:<E>" with S and E the decimal forms of numbers above
\* 0 parses to that id as a series with season S and episode E; and every
\* object returned has season and episode both or neither, and has them only
\* when its type is series.
C11_ParseMovieAndSeries ==
    ParseEnded =>
        /\ (\A i \in DOMAIN parse.id : parse.id[i] # ":") =>
               /\ parse.pc = "returned"
               /\ parse.out = [imdbId |-> parse.id, type |-> "movie"]
        /\ \A i \in ImdbIds, S \in 1..MaxNumber, E \in 1..MaxNumber :
               parse.id = i \o <<":">> \o ToStr(S) \o <<":">> \o ToStr(E) =>
                   /\ parse.pc = "returned"
                   /\ parse.out = [imdbId |-> i, type |-> "series",
                                   season |-> S, episode |-> E]
        /\ parse.pc = "returned" =>
               /\ HasKey(parse.out, "season") <=> HasKey(parse.out, "episode")
               /\ HasKey(parse.out, "season") => parse.out.type = "series"

\* an id with a season of two digits was parsed to a series
C11_Witness ==
    /\ parse.pc = "returned"
    /\ parse.out.type = "series"
    /\ parse.out.season > 9
    /\ parse.id = parse.out.imdbId \o <<":">> \o ToStr(parse.out.season)
                      \o <<":">> \o ToStr(parse.out.episode)

\* a segment that is the decimal form of a number above 0
IsPositiveInteger(seg) ==
    /\ seg # <<>>
    /\ Range(seg) \subseteq DigitChars
    /\ \E i \in DOMAIN seg : seg[i] # "0"

WellFormedId(id) ==
    LET parts == Split(id, ":")
    IN \/ Len(parts) = 1
       \/ /\ Len(parts) >= 3
          /\ IsPositiveInteger(parts[2])
          /\ IsPositiveInteger(parts[3])

\* C12: parseStremioId throws for every id that is neither one segment nor an
\* id followed by a season and an episode that are both numbers above 0: for
\* two segments, and for a season or episode that is no number, has something
\* after its digits, is zero or is negative.
C12_MalformedAlwaysThrows ==
    ParseEnded => (~WellFormedId(parse.id) => parse.pc = "threw")

----------------------------------------------------------------------------
(* index.js: convertMicroDvdToSrt and formatSrtTime.  A text is a sequence  *)
(* of characters, "\n" and "\r" among them; a frame rate is a fraction      *)
(* num / den, as 23.976 is 23976 / 1000.                                    *)

DefaultFps == 25

Max(a, b) == IF a > b THEN a ELSE b

\* Math.floor(a / b)
FloorDiv(a, b) == a \div b

\* Math.round(a / b) for a >= 0 and b > 0
RoundDiv(a, b) == (2 * a + b) \div (2 * b)

\* String(value).padStart(3, '0')
PadStart3(s) ==
    IF Len(s) >= 3 THEN s
    ELSE IF Len(s) = 2 THEN <<"0">> \o s
    ELSE IF Len(s) = 1 THEN <<"0", "0">> \o s
    ELSE <<"0", "0", "0">>

\* formatSrtTime(frame / fps)
formatSrtTime(frame, fps) ==
    LET totalMs == Max(0, RoundDiv(frame * 1000 * fps.den, fps.num))
        ms == totalMs % 1000
        totalSecondsInt == totalMs \div 1000
        seconds == totalSecondsInt % 60
        totalMinutes == totalSecondsInt \div 60
        minutes == totalMinutes % 60
        hours == totalMinutes \div 60
    IN PadStart2(ToStr(hours)) \o <<":">> \o PadStart2(ToStr(minutes)) \o <<":">>
         \o PadStart2(ToStr(seconds)) \o <<",">> \o PadStart3(ToStr(ms))

\* text.split(/\r?\n/)
SplitLines(text) ==
    LET pieces == Split(text, "\n")
    IN [i \in DOMAIN pieces |->
          IF i < Len(pieces) /\ pieces[i] # <<>> /\ pieces[i][Len(pieces[i])] = "\r"
          THEN SubSeq(pieces[i], 1, Len(pieces[i]) - 1)
          ELSE pieces[i]]

NoMatch == [ok |-> FALSE, start |-> 0, end |-> 0, rest |-> <<>>]

\* line.match(/^\{(\d+)\}\{(\d+)\}(.*)$/)
MatchLegacy(line) ==
    IF line = <<>> \/ Head(line) # "{" THEN NoMatch
    ELSE LET d1 == DigitPrefix(Tail(line))
             r1 == SubSeq(line, 2 + Len(d1), Len(line))
         IN IF d1 = <<>> \/ Len(r1) < 2 \/ r1[1] # "}" \/ r1[2] # "{" THEN NoMatch
            ELSE LET d2 == DigitPrefix(SubSeq(r1, 3, Len(r1)))
                     r2 == SubSeq(r1, 3 + Len(d2), Len(r1))
                 IN IF d2 = <<>> \/ r2 = <<>> \/ Head(r2) # "}" THEN NoMatch
                    ELSE IF \E i \in DOMAIN Tail(r2) : Tail(r2)[i] \in {"\n", "\r"}
                    THEN NoMatch
                    ELSE [ok |-> TRUE, start |-> DigitsValue(d1),
                          end |-> DigitsValue(d2), rest |-> Tail(r2)]

\* /^\d+(?:[.,]\d+)?$/.test(trimmed)
IsBareNumber(trimmed) ==
    LET whole == DigitPrefix(trimmed)
        r == SubSeq(trimmed, Len(whole) + 1, Len(trimmed))
    IN /\ whole # <<>>
       /\ \/ r = <<>>
          \/ /\ Head(r) \in {".", ","}
             /\ Tail(r) # <<>>
             /\ Range(Tail(r)) \subseteq DigitChars

RECURSIVE Pow10(_)
Pow10(n) == IF n = 0 THEN 1 ELSE 10 * Pow10(n - 1)

\* parseFloat(trimmed.replace(',', '.')) of a bare number
ParseFps(trimmed) ==
    LET whole == DigitPrefix(trimmed)
        r == SubSeq(trimmed, Len(whole) + 1, Len(trimmed))
        frac == IF r = <<>> THEN <<>> ELSE Tail(r)
    IN [num |-> DigitsValue(whole \o frac), den |-> Pow10(Len(frac))]

\* .replace(/\{[^}]*\}/g, '')
RECURSIVE StripBraces(_)
StripBraces(s) ==
    IF s = <<>> THEN <<>>
    ELSE IF Head(s) = "{" /\ \E i \in DOMAIN Tail(s) : Tail(s)[i] = "}"
    THEN LET k == CHOOSE i \in DOMAIN Tail(s) :
                      Tail(s)[i] = "}" /\ \A j \in 1..(i - 1) : Tail(s)[j] # "}"
         IN StripBraces(SubSeq(Tail(s), k + 1, Len(Tail(s))))
    ELSE <<Head(s)>> \o StripBraces(Tail(s))

\* .replace(/\|/g, '\n')
BreakPipes(s) == [i \in DOMAIN s |-> IF s[i] = "|" THEN "\n" ELSE s[i]]

CleanText(rawText) == Trim(BreakPipes(StripBraces(rawText)))

NoFps == [num |-> 0, den |-> 1]

\* the for loop of convertMicroDvdToSrt: fps and entries after the lines
RECURSIVE ScanLines(_, _, _)
ScanLines(lines, fps, entries) ==
    IF lines = <<>> THEN [fps |-> fps, entries |-> entries]
    ELSE LET m == MatchLegacy(Head(lines))
             trimmed == Trim(m.rest)
             cleaned == CleanText(m.rest)
         IN IF ~m.ok THEN ScanLines(Tail(lines), fps, entries)
            ELSE IF m.start = m.end /\ IsBareNumber(trimmed)
                    /\ ParseFps(trimmed).num > 0
            THEN ScanLines(Tail(lines), ParseFps(trimmed), entries)
            ELSE IF cleaned = <<>> THEN ScanLines(Tail(lines), fps, entries)
            ELSE ScanLines(Tail(lines), fps,
                           Append(entries, [start |-> m.start, end |-> m.end,
                                            text |-> cleaned]))

\* convertMicroDvdToSrt(text): null, or the SRT text
SafeFpsDefaultOnly(fps) == [num |-> DefaultFps, den |-> 1]

\* fps && fps > 0 ? fps : 25
SafeFps(fps) == IF fps.num > 0 THEN fps ELSE [num |-> DefaultFps, den |-> 1]

\* output.join('\n') of the entries from the index-th on
RECURSIVE FormatEntries(_, _, _)
FormatEntries(entries, index, fps) ==
    IF entries = <<>> THEN <<>>
    ELSE LET entry == Head(entries)
             block == ToStr(index) \o <<"\n">> \o formatSrtTime(entry.start, fps)
                        \o <<" ", "-", "-", ">", " ">> \o formatSrtTime(entry.end, fps)
                        \o <<"\n">> \o entry.text \o <<"\n">>
         IN IF Len(entries) = 1 THEN block
            ELSE block \o <<"\n">> \o FormatEntries(Tail(entries), index + 1, fps)

convertMicroDvdToSrt(text) ==
    LET scan == ScanLines(SplitLines(text), NoFps, <<>>)
        safeFps == SafeFps(scan.fps)
    IN IF scan.entries = <<>> THEN [isNull |-> TRUE, text |-> <<>>]
       ELSE [isNull |-> FALSE,
             text |-> Trim(FormatEntries(scan.entries, 1, safeFps)) \o <<"\n">>]

ServedConvertedOnly(decoded) == convertMicroDvdToSrt(decoded).text

\* converted || decoded
Served(decoded) ==
    LET converted == convertMicroDvdToSrt(decoded)
    IN IF converted.isNull \/ converted.text = <<>> THEN decoded ELSE converted.text

\* lines a text is made of, each with what it is: a caption (kind "entry",
\* with its frames and its text once cleaned), a frame rate declaration
\* (kind "fps"), a caption with nothing left after cleaning (kind "empty"),
\* or a line that is not of the legacy shape (kind "plain")
LinePool ==
    {
     [chars |-> <<"{", "0", "}", "{", "2", "5", "}", "H", "i">>,
      kind |-> "entry", start |-> 0, end |-> 25, fps |-> [num |-> 0, den |-> 1],
      text |-> <<"H", "i">>],
     [chars |-> <<"{", "2", "5", "}", "{", "5", "0", "}", "{", "y", ":", "i", "}", "a", "|", "b">>,
      kind |-> "entry", start |-> 25, end |-> 50, fps |-> [num |-> 0, den |-> 1],
      text |-> <<"a", "\n", "b">>],
     [chars |-> <<"{", "1", "}", "{", "1", "}", "5", "0">>,
      kind |-> "fps", start |-> 1, end |-> 1, fps |-> [num |-> 50, den |-> 1],
      text |-> <<>>],
     [chars |-> <<"{", "1", "}", "{", "1", "}", "2", "3", ",", "9", "7", "6">>,
      kind |-> "fps", start |-> 1, end |-> 1, fps |-> [num |-> 23976, den |-> 1000],
      text |-> <<>>],
     [chars |-> <<"{", "5", "}", "{", "5", "}", "0">>,
      kind |-> "entry", start |-> 5, end |-> 5, fps |-> [num |-> 0, den |-> 1],
      text |-> <<"0">>],
     [chars |-> <<"{", "3", "}", "{", "4", "}", "{", "y", ":", "b", "}", "|", " ">>,
      kind |-> "empty", start |-> 3, end |-> 4, fps |-> [num |-> 0, den |-> 1],
      text |-> <<>>],
     [chars |-> <<"H", "i">>,
      kind |-> "plain", start |-> 0, end |-> 0, fps |-> [num |-> 0, den |-> 1],
      text |-> <<>>],
     [chars |-> <<"{", "2", "}", "{", "2", "}", " ", "1", "0", " ">>,
      kind |-> "fps", start |-> 2, end |-> 2, fps |-> [num |-> 10, den |-> 1],
      text |-> <<>>],
     [chars |-> <<"{", "7", "}", "{", "9", "}", "1", "2">>,
      kind |-> "entry", start |-> 7, end |-> 9, fps |-> [num |-> 0, den |-> 1],
      text |-> <<"1", "2">>]}

MaxLines == 3

LineSeparators == {<<"\n">>, <<"\r", "\n">>}

RECURSIVE JoinLines(_, _)
JoinLines(ls, sep) ==
    IF ls = <<>> THEN <<>>
    ELSE IF Len(ls) = 1 THEN ls[1].chars
    ELSE ls[1].chars \o sep \o JoinLines(Tail(ls), sep)

GiveText ==
    /\ conv.pc = "idle"
    /\ \E n \in 1..MaxLines :
         \E ls \in [1..n -> LinePool], sep \in LineSeparators :
            conv' = [pc |-> "given", lines |-> ls, text |-> JoinLines(ls, sep)]
    /\ UNCHANGED <<now, ticks, parse, proxy>>
    /\ UNCHANGED searchVars
    /\ UNCHANGED storeVars
    /\ UNCHANGED hostVars

\* the text is converted and served as processSubtitleBuffer serves a payload
ConvertText ==
    /\ conv.pc = "given"
    /\ conv' = [pc |-> "converted", lines |-> conv.lines, text |-> conv.text,
                out |-> convertMicroDvdToSrt(conv.text),
                served |-> Served(conv.text)]
    /\ UNCHANGED <<now, ticks, parse, proxy>>
    /\ UNCHANGED searchVars
    /\ UNCHANGED storeVars
    /\ UNCHANGED hostVars

\* what was served is given to the conversion again
ConvertAgain ==
    /\ conv.pc = "converted"
    /\ conv' = [pc |-> "again", lines |-> conv.lines, text |-> conv.text,
                out |-> conv.out, served |-> conv.served,
                again |-> Served(conv.served)]
    /\ UNCHANGED <<now, ticks, parse, proxy>>
    /\ UNCHANGED searchVars
    /\ UNCHANGED storeVars
    /\ UNCHANGED hostVars

InitConvert == SearchIdle /\ RouteIdle

NextConvert == GiveText \/ ConvertText \/ ConvertAgain

SpecConvert == InitConvert /\ [][NextConvert]_vars

----------------------------------------------------------------------------
(* index.js: decodeBulgarian and processSubtitleBuffer.  A byte below 0x80  *)
(* is written as its ASCII character, a byte above as its two hex digits;   *)
(* a decoded character outside ASCII is written as its code point.          *)

HighBytes == {"EF", "BB", "BF", "D0", "B0", "E0"}

Utf8Bom == <<"EF", "BB", "BF">>

StartsWith(s, prefix) ==
    Len(s) >= Len(prefix) /\ SubSeq(s, 1, Len(prefix)) = prefix

EndsWith(s, suffix) ==
    Len(s) >= Len(suffix) /\ SubSeq(s, Len(s) - Len(suffix) + 1, Len(s)) = suffix

\* buffer.toString('utf8'): the mark stays in the text, two bytes D0 B0 are
\* one Cyrillic letter, any other high byte is not valid UTF-8
RECURSIVE Utf8Text(_)
Utf8Text(bytes) ==
    IF bytes = <<>> THEN <<>>
    ELSE IF StartsWith(bytes, Utf8Bom)
    THEN <<"U+FEFF">> \o Utf8Text(SubSeq(bytes, 4, Len(bytes)))
    ELSE IF StartsWith(bytes, <<"D0", "B0">>)
    THEN <<"U+0430">> \o Utf8Text(SubSeq(bytes, 3, Len(bytes)))
    ELSE IF Head(bytes) \in HighBytes
    THEN <<"U+FFFD">> \o Utf8Text(Tail(bytes))
    ELSE <<Head(bytes)>> \o Utf8Text(Tail(bytes))

\* iconv.decode(buffer, 'win1251'): one character for each byte
Win1251Char(b) ==
    CASE b = "E0" -> "U+0430"
      [] b = "D0" -> "U+0420"
      [] b = "EF" -> "U+043F"
      [] b = "B0" -> "U+00B0"
      [] b = "BB" -> "U+00BB"
      [] b = "BF" -> "U+0457"
      [] OTHER -> b

Win1251Text(bytes) == [i \in DOMAIN bytes |-> Win1251Char(bytes[i])]

\* /[\u0400-\u04FF]/
CyrillicChars == {"U+0430", "U+0420", "U+043F", "U+0457"}

decodeBulgarian(buffer) ==
    LET utf8Text == Utf8Text(buffer)
        hasBulgarianUtf8 == \E i \in DOMAIN utf8Text : utf8Text[i] \in CyrillicChars
    IN IF StartsWith(buffer, Utf8Bom) THEN utf8Text
       ELSE IF hasBulgarianUtf8 /\ \A i \in DOMAIN utf8Text : utf8Text[i] # "U+FFFD"
       THEN utf8Text
       ELSE Win1251Text(buffer)

\* entryName.toLowerCase()
LowerChar(c) ==
    CASE c = "S" -> "s" [] c = "R" -> "r" [] c = "T" -> "t" [] c = "U" -> "u"
      [] c = "B" -> "b" [] c = "X" -> "x" [] OTHER -> c

ToLowerCase(s) == [i \in DOMAIN s |-> LowerChar(s[i])]

\* find with directories taken as files
FindEntryAmongAll(zipEntries, ext) ==
    LET hits == {i \in DOMAIN zipEntries :
                    EndsWith(ToLowerCase(zipEntries[i].entryName), ext)}
    IN IF hits = {} THEN 0 ELSE CHOOSE i \in hits : \A j \in hits : i <= j

\* zipEntries.find(entry => !entry.isDirectory &&
\*                          entry.entryName.toLowerCase().endsWith(ext)):
\* the index of the entry found, 0 for undefined
FindEntry(zipEntries, ext) ==
    LET hits == {i \in DOMAIN zipEntries :
                    /\ ~zipEntries[i].isDirectory
                    /\ EndsWith(ToLowerCase(zipEntries[i].entryName), ext)}
    IN IF hits = {} THEN 0 ELSE CHOOSE i \in hits : \A j \in hits : i <= j

ExtSrt == <<".", "s", "r", "t">>

ExtSub == <<".", "s", "u", "b">>

ExtTxt == <<".", "t", "x", "t">>

\* buffer.length > 2 && buffer[0] === 0x50 && buffer[1] === 0x4B
IsZip(bytes) == Len(bytes) > 2 /\ bytes[1] = "P" /\ bytes[2] = "K"

SubripType == "application/x-subrip; charset=utf-8"

\* what a handler has done to res: a subtitle text sent with the default
\* status, or a message sent with status(); from is the payload the text
\* was taken from
Sent(status, contentType, body, from) ==
    [sent |-> TRUE, status |-> status, contentType |-> contentType,
     body |-> body, message |-> "", from |-> from]

SentMessage(status, message) ==
    [sent |-> TRUE, status |-> status, contentType |-> "text/html", body |-> <<>>,
     message |-> message, from |-> "none"]

NotSent == [sent |-> FALSE, status |-> 200, contentType |-> "", body |-> <<>>,
            message |-> "", from |-> "none"]

\* the text of a payload as the catch and else branches send it
ServeConverted(bytes, from) ==
    Sent(200, SubripType, Served(decodeBulgarian(bytes)), from)

\* the .srt entry is sent as it was decoded
ServeSrtEntry(bytes) == Sent(200, SubripType, decodeBulgarian(bytes), "srt")

FailAfterZipError(bytes) == SentMessage(500, "Error fetching subtitle")

\* the catch block of processSubtitleBuffer
ServeAfterZipError(bytes) == ServeConverted(bytes, "zipError")

\* processSubtitleBuffer(buffer, res, subtitleId): the value returned, the
\* index of the entry find gave (0 for none) and what was sent.  buffer.zip is what AdmZip makes of the bytes: ok is FALSE
\* when the constructor or getEntries throws, and entries are the entries
\* otherwise; an entry whose readable is FALSE makes getData throw.
processSubtitleBuffer(buffer) ==
    LET isZip == IsZip(buffer.bytes)
        zipEntries == IF isZip /\ buffer.zip.ok THEN buffer.zip.entries ELSE <<>>
        srtEntry == FindEntry(zipEntries, ExtSrt)
        subEntry == FindEntry(zipEntries, ExtSub)
        txtEntry == FindEntry(zipEntries, ExtTxt)
        chosen == IF srtEntry # 0 THEN srtEntry
                  ELSE IF subEntry # 0 THEN subEntry ELSE txtEntry
        threw == isZip /\ (~buffer.zip.ok \/ (chosen # 0 /\ ~zipEntries[chosen].readable))
        \* the bytes decoded outside the catch block and the branch they are in
        bytes == IF isZip /\ chosen # 0 THEN zipEntries[chosen].data ELSE buffer.bytes
        from == IF ~isZip THEN "raw" ELSE IF subEntry # 0 THEN "sub" ELSE "txt"
    IN IF threw
       THEN [success |-> TRUE, entry |-> chosen,
             res |-> ServeAfterZipError(buffer.bytes)]
       ELSE IF isZip /\ chosen = 0
       THEN [success |-> FALSE, entry |-> 0, res |-> NotSent]
       ELSE IF isZip /\ srtEntry # 0
       THEN [success |-> TRUE, entry |-> chosen, res |-> ServeSrtEntry(bytes)]
       ELSE [success |-> TRUE, entry |-> chosen, res |-> ServeConverted(bytes, from)]

----------------------------------------------------------------------------
(* index.js: router.get('/subtitle/:provider/:id.srt')                      *)

MaxEntries == 3

\* a test of the first character alone
IsNumericIdAtStart(subtitleId) == subtitleId # <<>> /\ Head(subtitleId) \in DigitChars

\* /^\d+$/.test(subtitleId)
IsNumericId(subtitleId) ==
    subtitleId # <<>> /\ Range(subtitleId) \subseteq DigitChars

validProviders == {"subsunacs", "subsab"}

\* downloadUrl in the two cases of the switch
DownloadUrl(provider, subtitleId) ==
    IF provider = "subsunacs"
    THEN <<"https://subsunacs.net/getentry.php?id=", subtitleId, "&ei=0">>
    ELSE <<"http://subs.sab.bz/index.php?act=download&attach_id=", subtitleId>>

\* the handler up to await axios.get(downloadUrl, ...), or to its early return
BeginSubtitle(provider, subtitleId) ==
    IF ~IsNumericId(subtitleId)
    THEN [pc |-> "responded", provider |-> provider, id |-> subtitleId,
          requests |-> <<>>, res |-> SentMessage(400, "Invalid subtitle ID")]
    ELSE IF provider \notin validProviders
    THEN [pc |-> "responded", provider |-> provider, id |-> subtitleId,
          requests |-> <<>>, res |-> SentMessage(400, "Invalid provider")]
    ELSE [pc |-> "awaiting", provider |-> provider, id |-> subtitleId,
          requests |-> <<DownloadUrl(provider, subtitleId)>>, res |-> NotSent]

\* const success = processSubtitleBuffer(...); if (!success) ...
AfterProcess(done) ==
    IF done.success THEN [entry |-> done.entry, res |-> done.res]
    ELSE [entry |-> 0, res |-> SentMessage(404, "Subtitle file not found in archive")]

\* the handler after the await: axios.get rejected (origin.kind = "error")
\* or resolved with response.data (origin.kind = "body")
EndSubtitle(origin) ==
    IF origin.kind = "error"
    THEN [entry |-> 0, res |-> SentMessage(500, "Error fetching subtitle")]
    ELSE IF Len(origin.buffer.bytes) = 0
    THEN [entry |-> 0, res |-> SentMessage(404, "Subtitle not found")]
    ELSE AfterProcess(processSubtitleBuffer(origin.buffer))

\* requests: registered and unregistered providers, numeric and other ids
ProviderParams == {"subsunacs", "subsab", "unknownprovider"}

IdParams == {<<"1">>, <<"9", "4">>, <<"a", "b", "c">>, <<"1", "a">>}

NoZip == [ok |-> FALSE, entries |-> <<>>]

\* bodies that are no container: text in ASCII, with a byte order mark, in
\* UTF-8 and in windows-1251, in the legacy format or not, and the two bytes
\* of the container signature alone
RawPayloads ==
    {
     <<"H", "i">>,
     <<"{", "0", "}", "{", "2", "5", "}", "H", "i">>,
     <<"{", "1", "}", "{", "1", "}", "5", "0", "\n", "{", "0", "}", "{", "2", "5", "}", "H", "i", "|", "x">>,
     <<"EF", "BB", "BF", "{", "0", "}", "{", "2", "5", "}", "H", "i", "\n", "{", "2", "5", "}", "{", "5", "0", "}", "a">>,
     <<"D0", "B0">>,
     <<"E0">>,
     <<"{", "1", "}", "{", "1", "}", "5", "0">>,
     <<"P", "K">>}

\* bytes that begin with the container signature
ZipPayloads ==
    {<<"P", "K", "{", "0", "}", "{", "2", "5", "}", "H", "i">>,
     <<"P", "K", "\n", "{", "0", "}", "{", "2", "5", "}", "H", "i">>}

\* entries of a container: files with the three extensions in either case, a
\* directory, a file of another kind, and a file that cannot be read
EntryPool ==
    {
     [entryName |-> <<"a", ".", "S", "R", "T">>, isDirectory |-> FALSE,
      data |-> <<"1", "\n", "0", "0", ":", "0", "0", ":", "0", "0", ",", "0", "0", "0", " ", "-", "-", ">", " ", "0", "0", ":", "0", "0", ":", "0", "1", ",", "0", "0", "0", "\n", "H", "i", "\n">>,
      readable |-> TRUE],
     [entryName |-> <<"b", ".", "s", "r", "t">>, isDirectory |-> FALSE,
      data |-> <<"{", "0", "}", "{", "2", "5", "}", "H", "i">>,
      readable |-> TRUE],
     [entryName |-> <<"c", ".", "S", "U", "B">>, isDirectory |-> FALSE,
      data |-> <<"{", "0", "}", "{", "2", "5", "}", "H", "i">>,
      readable |-> TRUE],
     [entryName |-> <<"d", ".", "t", "x", "t">>, isDirectory |-> FALSE,
      data |-> <<"{", "1", "}", "{", "1", "}", "5", "0", "\n", "{", "0", "}", "{", "2", "5", "}", "H", "i">>,
      readable |-> TRUE],
     [entryName |-> <<"e", ".", "t", "x", "t">>, isDirectory |-> FALSE,
      data |-> <<"H", "i">>,
      readable |-> TRUE],
     [entryName |-> <<"f", ".", "s", "r", "t">>, isDirectory |-> TRUE,
      data |-> <<>>,
      readable |-> TRUE],
     [entryName |-> <<"g", ".", "n", "f", "o">>, isDirectory |-> FALSE,
      data |-> <<"H", "i">>,
      readable |-> TRUE],
     [entryName |-> <<"h", ".", "s", "u", "b">>, isDirectory |-> FALSE,
      data |-> <<"H", "i">>,
      readable |-> FALSE]}

Archives == UNION {[1..n -> EntryPool] : n \in 0..MaxEntries}

OriginAnswers ==
    {[kind |-> "error", why |-> w, buffer |-> [bytes |-> <<>>, zip |-> NoZip]] :
        w \in {"network", "timeout", "status"}}
    \cup {[kind |-> "body", why |-> "", buffer |-> [bytes |-> b, zip |-> NoZip]] :
             b \in RawPayloads \cup ZipPayloads \cup {<<>>}}
    \cup {[kind |-> "body", why |-> "",
           buffer |-> [bytes |-> b, zip |-> [ok |-> TRUE, entries |-> a]]] :
             b \in ZipPayloads, a \in Archives}

RequestSubtitle ==
    /\ proxy.pc = "idle"
    /\ \E provider \in ProviderParams, subtitleId \in IdParams :
         proxy' = BeginSubtitle(provider, subtitleId)
    /\ UNCHANGED <<now, ticks, parse, conv>>
    /\ UNCHANGED searchVars
    /\ UNCHANGED storeVars
    /\ UNCHANGED hostVars

\* the handler has ended on the origin's answer
Responded(origin, ended) ==
    [pc |-> "responded", provider |-> proxy.provider, id |-> proxy.id,
     requests |-> proxy.requests, origin |-> origin,
     entry |-> ended.entry, res |-> ended.res]

OriginSettles ==
    /\ proxy.pc = "awaiting"
    /\ \E origin \in OriginAnswers :
         proxy' = Responded(origin, EndSubtitle(origin))
    /\ UNCHANGED <<now, ticks, parse, conv>>
    /\ UNCHANGED searchVars
    /\ UNCHANGED storeVars
    /\ UNCHANGED hostVars

InitProxy == SearchIdle /\ RouteIdle

NextProxy == RequestSubtitle \/ OriginSettles

SpecProxy == InitProxy /\ [][NextProxy]_vars

\* the buffer the handler got, and whether it took it for a container
GotBody == proxy.pc = "responded" /\ proxy.requests # <<>> /\ proxy.origin.kind = "body"

GotZip == GotBody /\ IsZip(proxy.origin.buffer.bytes)

\* C13: a request whose id is not all digits is answered 400 'Invalid subtitle
\* ID', and one with a numeric id whose provider is not registered is answered
\* 400 'Invalid provider'; neither makes a request to an origin.
C13_RejectsBadIdAndProvider ==
    proxy.pc # "idle" =>
        /\ (\E i \in DOMAIN proxy.id : proxy.id[i] \notin DigitChars) =>
              /\ proxy.pc = "responded"
              /\ proxy.res.status = 400
              /\ proxy.res.message = "Invalid subtitle ID"
              /\ proxy.requests = <<>>
        /\ (proxy.provider \notin {"subsunacs", "subsab"}) =>
              /\ proxy.pc = "responded"
              /\ proxy.res.status = 400
              /\ proxy.res.message \in {"Invalid provider", "Invalid subtitle ID"}
              /\ proxy.res.message = "Invalid subtitle ID" =>
                     \E i \in DOMAIN proxy.id : proxy.id[i] \notin DigitChars
              /\ proxy.requests = <<>>
        /\ proxy.pc = "awaiting" => Len(proxy.requests) = 1

\* fetch("unknownprovider", "1") was answered 'Invalid provider'
C13_Witness ==
    /\ proxy.pc = "responded"
    /\ proxy.provider = "unknownprovider"
    /\ proxy.id = <<"1">>
    /\ proxy.res.status = 400
    /\ proxy.res.message = "Invalid provider"
    /\ proxy.requests = <<>>

\* the container was opened and these are its entries
ZipEntries == proxy.origin.buffer.zip.entries

\* the files among the entries whose name ends in ext, whatever the case
FilesWith(ext) ==
    {i \in DOMAIN ZipEntries :
        /\ ~ZipEntries[i].isDirectory
        /\ EndsWith(ToLowerCase(ZipEntries[i].entryName), ext)}

First(S) == CHOOSE i \in S : \A j \in S : i <= j

\* the entry the extension priority asks for, 0 if there is none
Preferred ==
    IF FilesWith(ExtSrt) # {} THEN First(FilesWith(ExtSrt))
    ELSE IF FilesWith(ExtSub) # {} THEN First(FilesWith(ExtSub))
    ELSE IF FilesWith(ExtTxt) # {} THEN First(FilesWith(ExtTxt))
    ELSE 0

\* C15: from a container that opens, the entry served is the first file whose
\* name ends in .srt, in any case; with no such file the first ending in
\* .sub; with none of those the first ending in .txt; directories are passed
\* over and the order of the entries across the three kinds does not count.
\* With no file of the three kinds the answer is 404 with no subtitle text.
C15_ExtensionPriority ==
    (GotZip /\ proxy.origin.buffer.zip.ok) =>
        /\ proxy.entry = Preferred
        /\ (Preferred # 0 /\ ZipEntries[Preferred].readable) =>
              /\ proxy.res.status = 200
              /\ proxy.res.from =
                     (IF FilesWith(ExtSrt) # {} THEN "srt"
                      ELSE IF FilesWith(ExtSub) # {} THEN "sub" ELSE "txt")
              /\ proxy.res.body \in
                     {decodeBulgarian(ZipEntries[Preferred].data),
                      Served(decodeBulgarian(ZipEntries[Preferred].data))}
        /\ Preferred = 0 =>
              /\ proxy.res.status = 404
              /\ proxy.res.message = "Subtitle file not found in archive"
              /\ proxy.res.body = <<>>

\* a .SRT file was served that came third, after a .txt and a .sub file
C15_Witness ==
    /\ GotZip
    /\ proxy.origin.buffer.zip.ok
    /\ Len(ZipEntries) = 3
    /\ 1 \in FilesWith(ExtTxt)
    /\ 2 \in FilesWith(ExtSub)
    /\ proxy.entry = 3
    /\ proxy.res.from = "srt"
    /\ ZipEntries[3].entryName # ToLowerCase(ZipEntries[3].entryName)

\* opening the container threw, or reading the chosen entry did
ZipThrew ==
    /\ GotZip
    /\ \/ ~proxy.origin.buffer.zip.ok
       \/ proxy.entry # 0 /\ ~ZipEntries[proxy.entry].readable

\* C17: when the body begins with the container signature and opening or
\* reading the container throws, the answer is 200 with the raw bytes decoded
\* as text, converted if they hold legacy entries.
C17_CorruptContainerServedRaw ==
    ZipThrew =>
        LET decoded == decodeBulgarian(proxy.origin.buffer.bytes)
            converted == convertMicroDvdToSrt(decoded)
        IN /\ proxy.res.sent
           /\ proxy.res.status = 200
           /\ proxy.res.contentType = SubripType
           /\ proxy.res.body = IF converted.isNull THEN decoded ELSE converted.text

\* a container that did not open was answered with its bytes converted
C17_Witness ==
    /\ GotZip
    /\ ~proxy.origin.buffer.zip.ok
    /\ proxy.res.status = 200
    /\ proxy.res.body # <<>>
    /\ proxy.res.body # decodeBulgarian(proxy.origin.buffer.bytes)

\* the bytes of the payload the answer was taken from
PayloadBytes ==
    IF proxy.res.from \in {"srt", "sub", "txt"}
    THEN ZipEntries[proxy.entry].data
    ELSE proxy.origin.buffer.bytes

\* C18: whatever payload is served, a .srt, .sub or .txt entry or the raw
\* body, if its decoded text holds legacy entries the text sent is the
\* converted text.
C18_LegacyAlwaysConverted ==
    (GotBody /\ proxy.res.from # "none") =>
        LET converted == convertMicroDvdToSrt(decodeBulgarian(PayloadBytes))
        IN ~converted.isNull => proxy.res.body = converted.text

----------------------------------------------------------------------------
(* api/index.js: fetchSubtitle and app.get('/subtitle/:id.srt').  The body  *)
(* of the origin's file comes in pieces, one 'data' event for each; the     *)
(* events of the request and of the response stream come in any order the   *)
(* streams allow.                                                           *)

MaxChunks == 2

RECURSIVE Concat(_)
Concat(chunks) == IF chunks = <<>> THEN <<>> ELSE Head(chunks) \o Concat(Tail(chunks))

\* files an origin holds: a text, a legacy text, and a container with one
\* .sub entry
ApiFiles ==
    {[pieces |-> <<<<"H">>, <<"i">>>>, zip |-> NoZip],
     [pieces |-> <<<<"{", "0", "}", "{", "2">>, <<"5", "}", "H", "i">>>>, zip |-> NoZip],
     [pieces |-> <<<<"P", "K", "z">>, <<"!">>>>,
      zip |-> [ok |-> TRUE,
               entries |-> <<[entryName |-> <<"c", ".", "S", "U", "B">>,
                              isDirectory |-> FALSE,
                              data |-> <<"{", "0", "}", "{", "2", "5", "}", "H", "i">>,
                              readable |-> TRUE]>>]]}

\* fetchSubtitle's locals when it has returned its promise
FetchStarted(file) ==
    [file |-> file, started |-> FALSE, chunks |-> <<>>, resolved |-> FALSE,
     settled |-> "pending", data |-> <<>>, streamOver |-> FALSE,
     reqErrored |-> FALSE, destroyed |-> FALSE, timedOut |-> FALSE,
     events |-> <<>>]

\* resolve({ data: Buffer.concat(chunks), ... })
ResolveWithChunks(f) ==
    [f EXCEPT !.resolved = TRUE, !.settled = "resolved", !.data = Concat(f.chunks)]

\* reject(err)
RejectFetch(f) == [f EXCEPT !.resolved = TRUE, !.settled = "rejected"]

\* response.on('end', ...)
OnEnd(f) == IF ~f.resolved THEN ResolveWithChunks(f) ELSE f

\* response.on('error', ...)
OnResponseError(f) ==
    IF ~f.resolved /\ Len(f.chunks) > 0 THEN ResolveWithChunks(f) ELSE f

\* req.on('error', ...)
OnRequestError(f) ==
    IF ~f.resolved
    THEN IF Len(f.chunks) > 0 THEN ResolveWithChunks(f) ELSE RejectFetch(f)
    ELSE f

\* a timeout callback that leaves the promise as it is
TimeoutIgnored(f) == f

\* req.setTimeout(25000, ...)
OnTimeout(f) ==
    IF ~f.resolved
    THEN [RejectFetch(f) EXCEPT !.destroyed = TRUE, !.streamOver = TRUE]
    ELSE f

\* the buffer the handler works on: the bytes received, which AdmZip can
\* open only when they are the whole container
ReceivedBuffer(f) ==
    [bytes |-> f.data,
     zip |-> IF Len(f.chunks) = Len(f.file.pieces) THEN f.file.zip ELSE NoZip]

PlainType == "text/plain; charset=utf-8"

\* the handler after await fetchSubtitle(subtitleId) resolved
ApiServe(buffer) ==
    IF IsZip(buffer.bytes)
    THEN IF ~buffer.zip.ok
         THEN Sent(200, PlainType, decodeBulgarian(buffer.bytes), "zipError")
         ELSE LET zipEntries == buffer.zip.entries
                  srtEntry == FindEntry(zipEntries, ExtSrt)
                  subEntry == FindEntry(zipEntries, ExtSub)
                  chosen == IF srtEntry # 0 THEN srtEntry ELSE subEntry
              IN IF chosen = 0
                 THEN SentMessage(404, "Subtitle file not found in archive")
                 ELSE IF ~zipEntries[chosen].readable
                 THEN Sent(200, PlainType, decodeBulgarian(buffer.bytes), "zipError")
                 ELSE Sent(200, PlainType, decodeBulgarian(zipEntries[chosen].data),
                           IF srtEntry # 0 THEN "srt" ELSE "sub")
    ELSE Sent(200, PlainType, decodeBulgarian(buffer.bytes), "raw")

\* the handler once the promise of fetchSubtitle has settled
ApiRespond(f) ==
    IF f.settled = "rejected" THEN SentMessage(500, "Error fetching subtitle")
    ELSE ApiServe(ReceivedBuffer(f))

\* the request arrives: the id is tested and fetchSubtitle is called
ApiRequest ==
    /\ proxy.pc = "idle"
    /\ \E subtitleId \in IdParams :
         IF ~IsNumericId(subtitleId)
         THEN proxy' = [pc |-> "responded", id |-> subtitleId,
                        res |-> SentMessage(400, "Invalid subtitle ID")]
         ELSE \E file \in ApiFiles :
                 proxy' = [pc |-> "fetching", id |-> subtitleId,
                           fetch |-> FetchStarted(file), res |-> NotSent]
    /\ UNCHANGED <<now, ticks, parse, conv>>
    /\ UNCHANGED searchVars
    /\ UNCHANGED storeVars
    /\ UNCHANGED hostVars

\* an event was handled and left fetchSubtitle's locals as f; if it settled
\* the promise the handler goes on and answers
AfterEvent(f, name) ==
    LET g == [f EXCEPT !.events = Append(f.events, name)]
    IN /\ proxy' = IF proxy.pc = "fetching" /\ g.settled # "pending"
                   THEN [proxy EXCEPT !.pc = "responded", !.fetch = g,
                                      !.res = ApiRespond(g)]
                   ELSE [proxy EXCEPT !.fetch = g]
       /\ UNCHANGED <<now, ticks, parse, conv>>
       /\ UNCHANGED searchVars
       /\ UNCHANGED storeVars
       /\ UNCHANGED hostVars

Fetching == proxy.pc \in {"fetching", "responded"} /\ "fetch" \in DOMAIN proxy

\* the response callback: the listeners are put on the response stream
FetchResponse ==
    /\ Fetching
    /\ ~proxy.fetch.started /\ ~proxy.fetch.reqErrored /\ ~proxy.fetch.destroyed
    /\ AfterEvent([proxy.fetch EXCEPT !.started = TRUE], "response")

FetchData ==
    /\ Fetching
    /\ proxy.fetch.started /\ ~proxy.fetch.streamOver /\ ~proxy.fetch.reqErrored
    /\ Len(proxy.fetch.chunks) < Min(MaxChunks, Len(proxy.fetch.file.pieces))
    /\ AfterEvent([proxy.fetch EXCEPT
                     !.chunks = Append(@, proxy.fetch.file.pieces[Len(@) + 1])],
                  "data")

FetchEnd ==
    /\ Fetching
    /\ proxy.fetch.started /\ ~proxy.fetch.streamOver /\ ~proxy.fetch.reqErrored
    /\ AfterEvent([OnEnd(proxy.fetch) EXCEPT !.streamOver = TRUE], "end")

FetchResponseError ==
    /\ Fetching
    /\ proxy.fetch.started /\ ~proxy.fetch.streamOver
    /\ AfterEvent([OnResponseError(proxy.fetch) EXCEPT !.streamOver = TRUE],
                  "responseError")

FetchRequestError ==
    /\ Fetching
    /\ ~proxy.fetch.reqErrored
    /\ AfterEvent([OnRequestError(proxy.fetch) EXCEPT !.reqErrored = TRUE],
                  "requestError")

FetchTimeout ==
    /\ Fetching
    /\ ~proxy.fetch.timedOut /\ ~proxy.fetch.destroyed
    /\ AfterEvent([OnTimeout(proxy.fetch) EXCEPT !.timedOut = TRUE], "timeout")

InitFetch == SearchIdle /\ RouteIdle

NextFetch ==
    \/ ApiRequest
    \/ FetchResponse
    \/ FetchData
    \/ FetchEnd
    \/ FetchResponseError
    \/ FetchRequestError
    \/ FetchTimeout

SpecFetch == InitFetch /\ [][NextFetch]_vars

\* an event that ends the transfer has been handled
Terminated ==
    proxy.fetch.streamOver \/ proxy.fetch.reqErrored \/ proxy.fetch.timedOut

\* C14: when the origin fetch fails entirely, by a network error, by the
\* timeout or by a response that ends with an empty body, the request is
\* answered with the one failure 'Error fetching subtitle' and never with a
\* success status.
C14_FailedFetchIsUnavailable ==
    (Fetching /\ proxy.pc = "responded" /\ proxy.fetch.chunks = <<>>) =>
        /\ proxy.res.status = 500
        /\ proxy.res.message = "Error fetching subtitle"
        /\ proxy.res.body = <<>>

\* C16: whatever the order of the events, once a chunk has been received the
\* event that ends the transfer resolves the promise with the chunks
\* concatenated, and the promise is rejected only when no chunk was received.
C16_ChunksAlwaysResolve ==
    Fetching =>
        /\ proxy.fetch.settled = "rejected" => proxy.fetch.chunks = <<>>
        /\ (Terminated /\ proxy.fetch.chunks # <<>>) =>
              /\ proxy.fetch.settled = "resolved"
              /\ proxy.fetch.data = Concat(proxy.fetch.chunks)

\* the lines of the text that are captions, and the rates it declares
Captions == SelectSeq(conv.lines, LAMBDA l : l.kind = "entry")

Declared == SelectSeq(conv.lines, LAMBDA l : l.kind = "fps")

\* the text expected for captions cs numbered from index at frame rate fps
RECURSIVE ExpectedSrt(_, _, _)
ExpectedSrt(cs, index, fps) ==
    IF cs = <<>> THEN <<>>
    ELSE (IF index > 1 THEN <<"\n">> ELSE <<>>)
         \o ToStr(index) \o <<"\n">>
         \o formatSrtTime(cs[1].start, fps) \o <<" ", "-", "-", ">", " ">>
         \o formatSrtTime(cs[1].end, fps) \o <<"\n">>
         \o cs[1].text \o <<"\n">>
         \o ExpectedSrt(Tail(cs), index + 1, fps)

Converted == conv.pc \in {"converted", "again"}

\* C19: the captions of a text that declares a frame rate are all timed at
\* that rate, those before the declaring line too (at the last rate declared
\* when several lines declare one); the captions of a text that declares none
\* are timed at 25; a declaring line is never a caption of the output.
C19_DeclaredRateForAll ==
    (Converted /\ Captions # <<>>) =>
        /\ ~conv.out.isNull
        /\ Declared = <<>> =>
               conv.out.text = ExpectedSrt(Captions, 1, [num |-> 25, den |-> 1])
        /\ \A r \in {l.fps : l \in Range(Declared)} :
               (\A i \in DOMAIN Declared : Declared[i].fps = r) =>
                   conv.out.text = ExpectedSrt(Captions, 1, r)
        /\ Declared # <<>> =>
               conv.out.text = ExpectedSrt(Captions, 1, Declared[Len(Declared)].fps)

\* a text whose third line declares 23,976 was converted, its two captions
\* before that line timed at that rate
C19_Witness ==
    /\ Converted
    /\ Len(conv.lines) = 3
    /\ conv.lines[1].kind = "entry"
    /\ conv.lines[2].kind = "entry"
    /\ conv.lines[3].kind = "fps"
    /\ conv.lines[3].fps = [num |-> 23976, den |-> 1000]
    /\ conv.lines[1].end > 0
    /\ conv.out.text = ExpectedSrt(Captions, 1, conv.lines[3].fps)
    /\ conv.out.text # ExpectedSrt(Captions, 1, [num |-> 25, den |-> 1])

\* C20: a text with no line of the legacy shape, or whose every such line
\* declares a rate or is empty once cleaned, is served as it is and not as an
\* empty text; and a text the conversion produced is served as it is when it
\* is given to the conversion again.
C20_NoSurvivorIsNoOp ==
    /\ (Converted /\ Captions = <<>>) =>
          /\ conv.out.isNull
          /\ conv.served = conv.text
          /\ conv.served # <<>>
    /\ conv.pc = "again" => conv.again = conv.served

\* a text of a declaring line and a line empty once cleaned was served as it
\* is, twice
C20_Witness ==
    /\ conv.pc = "again"
    /\ \E i, j \in DOMAIN conv.lines :
          conv.lines[i].kind = "fps" /\ conv.lines[j].kind = "empty"
    /\ Captions = <<>>
    /\ conv.again = conv.text

----------------------------------------------------------------------------
(* index.js: formatSrtTime on the frames of one entry                       *)

MaxFrame == 6

\* frame * 1000 * den stays below 2^31 / 2
MaxScaled == 1000000

\* frame rates a file can declare, as numbers and as written
Rates ==
    {[num |-> 25, den |-> 1, chars |-> <<"2", "5">>],
     [num |-> 23976, den |-> 1000, chars |-> <<"2", "3", ",", "9", "7", "6">>],
     [num |-> 2997, den |-> 100, chars |-> <<"2", "9", ".", "9", "7">>],
     [num |-> 50, den |-> 1, chars |-> <<"5", "0">>],
     [num |-> 30, den |-> 1, chars |-> <<"3", "0">>],
     [num |-> 3, den |-> 1, chars |-> <<"3">>],
     [num |-> 1, den |-> 1, chars |-> <<"1">>]}

\* frame indexes: the first ones, and some that give minutes, hours and
\* more than 99 hours
Frames == (0..MaxFrame) \cup {100, 200, 1499, 89999, 90000, 359999, 360000}

\* the file of one entry {start}{end}Hello that declares the rate
EntryFile(start, end, rate) ==
    <<"{", "1", "}", "{", "1", "}">> \o rate.chars \o <<"\n">>
      \o <<"{">> \o ToStr(start) \o <<"}", "{">> \o ToStr(end) \o <<"}">>
      \o <<"H", "e", "l", "l", "o">>

GiveFrames ==
    /\ stamp.pc = "idle"
    /\ \E start \in Frames, end \in Frames, rate \in Rates :
         /\ start * rate.den <= MaxScaled
         /\ end * rate.den <= MaxScaled
         /\ stamp' = [pc |-> "given", start |-> start, end |-> end, rate |-> rate]
    /\ UNCHANGED <<now, ticks, meta, site, sub, race>>
    /\ UNCHANGED searchVars
    /\ UNCHANGED storeVars
    /\ UNCHANGED routeVars

\* const startTime = formatSrtTime(entry.start / safeFps), endTime likewise,
\* and the conversion of the file of that entry
FormatTimes ==
    /\ stamp.pc = "given"
    /\ stamp' = [pc |-> "formatted", start |-> stamp.start, end |-> stamp.end,
                 rate |-> stamp.rate,
                 startTime |-> formatSrtTime(stamp.start, stamp.rate),
                 endTime |-> formatSrtTime(stamp.end, stamp.rate),
                 srt |-> convertMicroDvdToSrt(
                            EntryFile(stamp.start, stamp.end, stamp.rate))]
    /\ UNCHANGED <<now, ticks, meta, site, sub, race>>
    /\ UNCHANGED searchVars
    /\ UNCHANGED storeVars
    /\ UNCHANGED routeVars

InitStamp == SearchIdle /\ RouteIdle

NextStamp == GiveFrames \/ FormatTimes

SpecStamp == InitStamp /\ [][NextStamp]_vars

\* a timestamp read back: whether it is written HH:MM:SS,mmm with at least
\* two digits of hours, and the fields it holds
ReadStamp(t) ==
    LET n == Len(t)
        hours == SubSeq(t, 1, n - 10)
        digitsAt(a, b) == Range(SubSeq(t, a, b)) \subseteq DigitChars
    IN IF n < 12 THEN [ok |-> FALSE, h |-> 0, m |-> 0, s |-> 0, ms |-> 0]
       ELSE [ok |-> /\ digitsAt(1, n - 10)
                    /\ (Len(hours) > 2 => Head(hours) # "0")
                    /\ t[n - 9] = ":" /\ digitsAt(n - 8, n - 7)
                    /\ t[n - 6] = ":" /\ digitsAt(n - 5, n - 4)
                    /\ t[n - 3] = "," /\ digitsAt(n - 2, n),
             h |-> DigitsValue(hours),
             m |-> DigitsValue(SubSeq(t, n - 8, n - 7)),
             s |-> DigitsValue(SubSeq(t, n - 5, n - 4)),
             ms |-> DigitsValue(SubSeq(t, n - 2, n))]

TotalMs(r) == ((r.h * 60 + r.m) * 60 + r.s) * 1000 + r.ms

\* t is written as it should be and is frame / rate seconds to the nearest
\* millisecond
IsStampOf(t, frame, rate) ==
    LET r == ReadStamp(t)
        exact == frame * 1000 * rate.den
        diff == TotalMs(r) * rate.num - exact
    IN /\ r.ok
       /\ r.m < 60 /\ r.s < 60 /\ r.ms < 1000
       /\ 2 * diff <= rate.num /\ 2 * (0 - diff) <= rate.num

\* C21: the timestamp of frame f at rate r is f / r seconds to the nearest
\* millisecond written HH:MM:SS,mmm, minutes and seconds below 60, hours of
\* two digits at least; {100}{200}Hello at 25 gives 00:00:04,000 and
\* 00:00:08,000 with the text Hello; a start frame not after the end frame
\* gives a start time not after the end time.
C21_NearestMillisecond ==
    stamp.pc = "formatted" =>
        /\ IsStampOf(stamp.startTime, stamp.start, stamp.rate)
        /\ IsStampOf(stamp.endTime, stamp.end, stamp.rate)
        /\ stamp.start <= stamp.end =>
              TotalMs(ReadStamp(stamp.startTime)) <= TotalMs(ReadStamp(stamp.endTime))
        /\ ~stamp.srt.isNull
        /\ stamp.srt.text = <<"1", "\n">> \o stamp.startTime
                               \o <<" ", "-", "-", ">", " ">> \o stamp.endTime
                               \o <<"\n", "H", "e", "l", "l", "o", "\n">>
        /\ (stamp.start = 100 /\ stamp.end = 200 /\ stamp.rate.num = 25) =>
              /\ stamp.startTime = <<"0", "0", ":", "0", "0", ":", "0", "4", ",", "0", "0", "0">>
              /\ stamp.endTime = <<"0", "0", ":", "0", "0", ":", "0", "8", ",", "0", "0", "0">>

\* {100}{200}Hello was converted at 25 frames a second
C21_Witness ==
    /\ stamp.pc = "formatted"
    /\ stamp.start = 100 /\ stamp.end = 200 /\ stamp.rate.num = 25
    /\ stamp.startTime = <<"0", "0", ":", "0", "0", ":", "0", "4", ",", "0", "0", "0">>
    /\ ~stamp.srt.isNull

----------------------------------------------------------------------------
(* lib/imdb.js: getIMDBInfo, getCinemetaInfo and the module's cache         *)

MaxMetaCalls == 2
MaxMetaTicks == 3

\* new Cache(24 * 60 * 60 * 1000)
MetaTtl == 24 * 60 * 60 * 1000

\* the clock's step between calls
HalfDay == 12 * 60 * 60 * 1000

NoInfo == [title |-> "", year |-> 0, type |-> ""]

\* year: meta.year ? parseInt(meta.year, 10) : null; null is written 0
MetaYear(year) ==
    IF year = <<>> \/ ParseInt(year).nan THEN 0 ELSE ParseInt(year).value

\* typesToTry, with the types seenTypes makes the loop skip left out
RECURSIVE Unseen(_, _)
Unseen(types, seenTypes) ==
    IF types = <<>> THEN <<>>
    ELSE IF Head(types) \in seenTypes THEN Unseen(Tail(types), seenTypes)
    ELSE <<Head(types)>> \o Unseen(Tail(types), seenTypes \cup {Head(types)})

TypesHintFirst(typeHint) ==
    IF typeHint # "" THEN <<typeHint, "series", "movie">> ELSE <<"series", "movie">>

TypesToTry(typeHint) ==
    Unseen(IF typeHint # "" THEN <<typeHint>> ELSE <<"series", "movie">>, {})

\* what the metadata service answers: axios.get rejects (kind "error"), or
\* resolves with a body with or without meta, meta.name and meta.year
CinemetaAnswers ==
    {[kind |-> "error", hasMeta |-> FALSE, name |-> "", year |-> <<>>],
     [kind |-> "body", hasMeta |-> FALSE, name |-> "", year |-> <<>>],
     [kind |-> "body", hasMeta |-> TRUE, name |-> "", year |-> <<"1", "9", "9", "9">>],
     [kind |-> "body", hasMeta |-> TRUE, name |-> "The Matrix",
      year |-> <<"1", "9", "9", "9">>],
     [kind |-> "body", hasMeta |-> TRUE, name |-> "Dark", year |-> <<>>]}

\* !meta || !meta.name
HasName(answer) == answer.kind = "body" /\ answer.hasMeta /\ answer.name # ""

CinemetaInfo(answer, type) ==
    [title |-> answer.name, year |-> MetaYear(answer.year), type |-> type]

\* what cheerio finds in the page: og is "match" when the og:title content
\* matches the pattern, ld is "ok" when the first JSON-LD script parses and
\* "broken" when JSON.parse throws, h1 and releaseYear are the trimmed texts
\* ('' and 0 when absent or not four digits), guide is the episode guide
\* button
PageAnswers ==
    {[kind |-> "error", og |-> "none", ogTitle |-> "", ogYear |-> 0, ogSeries |-> FALSE,
      ld |-> "none", ldName |-> "", ldYear |-> 0, ldSeries |-> FALSE,
      h1 |-> "", releaseYear |-> 0, guide |-> FALSE],
     [kind |-> "page", og |-> "match", ogTitle |-> "The Matrix", ogYear |-> 1999,
      ogSeries |-> FALSE,
      ld |-> "ok", ldName |-> "Matrix", ldYear |-> 2000, ldSeries |-> TRUE,
      h1 |-> "", releaseYear |-> 0, guide |-> FALSE],
     [kind |-> "page", og |-> "match", ogTitle |-> "Dark", ogYear |-> 2017,
      ogSeries |-> TRUE,
      ld |-> "none", ldName |-> "", ldYear |-> 0, ldSeries |-> FALSE,
      h1 |-> "", releaseYear |-> 0, guide |-> FALSE],
     [kind |-> "page", og |-> "nomatch", ogTitle |-> "", ogYear |-> 0, ogSeries |-> FALSE,
      ld |-> "ok", ldName |-> "Heat", ldYear |-> 0, ldSeries |-> FALSE,
      h1 |-> "Heat (1995)", releaseYear |-> 1995, guide |-> FALSE],
     [kind |-> "page", og |-> "none", ogTitle |-> "", ogYear |-> 0, ogSeries |-> FALSE,
      ld |-> "broken", ldName |-> "", ldYear |-> 0, ldSeries |-> FALSE,
      h1 |-> "Alien", releaseYear |-> 0, guide |-> TRUE],
     [kind |-> "page", og |-> "none", ogTitle |-> "", ogYear |-> 0, ogSeries |-> FALSE,
      ld |-> "ok", ldName |-> "", ldYear |-> 2001, ldSeries |-> TRUE,
      h1 |-> "", releaseYear |-> 0, guide |-> FALSE]}

\* Methods 1 to 5 on the page: title '' stands for null
ScrapePage(page) ==
    LET og == page.og = "match"
        ld == ~og /\ page.ld = "ok"
        title == IF og THEN page.ogTitle
                 ELSE IF ld /\ page.ldName # "" THEN page.ldName
                 ELSE page.h1
        year1 == IF og THEN page.ogYear ELSE 0
        year2 == IF ld /\ page.ldYear # 0 THEN page.ldYear ELSE year1
        year == IF year2 = 0 THEN page.releaseYear ELSE year2
        series == (og /\ page.ogSeries) \/ (ld /\ page.ldSeries) \/ page.guide
    IN [title |-> title, year |-> year,
        type |-> IF series THEN "series" ELSE "movie"]

NoReturn == [threw |-> FALSE, isNull |-> FALSE, info |-> NoInfo]

\* prev is history: the id of the call before and whether it threw
MetaStart ==
    [pc |-> "idle", cache |-> EmptyMap, stored |-> EmptyMap, calls |-> 0,
     imdbId |-> "", typeHint |-> "", types |-> <<>>, ti |-> 0, log |-> <<>>,
     hit |-> FALSE, at |-> 0, ret |-> NoReturn,
     prev |-> [imdbId |-> "", threw |-> FALSE]]

Asked(to, type) == [to |-> to, type |-> type, got |-> "pending"]

\* the last request of the log got its answer
Got(log, got) == [log EXCEPT ![Len(log)].got = got]

\* getIMDBInfo(imdbId, typeHint) from its call to its first await, or to its
\* return on the cache-hit branch: cache.has reads the clock at t and
\* cache.get at t + d
BeginInfo(m, imdbId, typeHint, t, d) ==
    LET h == CacheHas(m.cache, imdbId, t)
        g == CacheGet(h.cache, imdbId, t + d)
        types == TypesToTry(typeHint)
        called == [m EXCEPT !.calls = @ + 1, !.imdbId = imdbId,
                            !.typeHint = typeHint, !.at = t,
                            !.prev = [imdbId |-> m.imdbId, threw |-> m.pc = "threw"]]
    IN IF h.found
       THEN [called EXCEPT !.pc = "returned", !.cache = g.cache, !.hit = TRUE,
                           !.types = <<>>, !.ti = 0, !.log = <<>>,
                           !.ret = [threw |-> FALSE, isNull |-> ~g.found,
                                    info |-> IF g.found THEN g.value ELSE NoInfo]]
       ELSE [called EXCEPT !.pc = "cinemeta", !.cache = h.cache, !.hit = FALSE,
                           !.types = types, !.ti = 1,
                           !.log = <<Asked("cinemeta", types[1])>>,
                           !.ret = NoReturn]

\* cache.set(imdbId, info); return info.  stored is history: what the last
\* set for an id stored, when, and in which call
StoreInfo(m, info, t) ==
    [m EXCEPT !.pc = "returned",
              !.cache = CacheSet(m.cache, m.imdbId, info, t, MetaTtl),
              !.stored = [k \in DOMAIN m.stored \cup {m.imdbId} |->
                            IF k = m.imdbId
                            THEN [info |-> info, at |-> t, call |-> m.calls]
                            ELSE m.stored[k]],
              !.ret = [threw |-> FALSE, isNull |-> FALSE, info |-> info]]

\* the loop of getCinemetaInfo after the answer to its request, and the rest
\* of getIMDBInfo up to the next await
AfterCinemeta(m, answer, t) ==
    LET got == IF answer.kind = "error" THEN "failed"
               ELSE IF HasName(answer) THEN "named" ELSE "noName"
        logged == [m EXCEPT !.log = Got(m.log, got)]
    IN IF HasName(answer)
       THEN StoreInfo(logged, CinemetaInfo(answer, m.types[m.ti]), t)
       ELSE IF m.ti < Len(m.types)
       THEN [logged EXCEPT !.ti = @ + 1,
                           !.log = Append(@, Asked("cinemeta", m.types[m.ti + 1]))]
       ELSE [logged EXCEPT !.pc = "imdb", !.log = Append(@, Asked("imdb", ""))]

\* getIMDBInfo after the answer to its request for the page
AfterPage(m, page, t) ==
    LET info == ScrapePage(page)
        threw == [threw |-> TRUE, isNull |-> FALSE, info |-> NoInfo]
    IN IF page.kind = "error"
       THEN [m EXCEPT !.pc = "threw", !.log = Got(m.log, "failed"), !.ret = threw]
       ELSE IF info.title = ""
       THEN [m EXCEPT !.pc = "threw", !.log = Got(m.log, "noName"), !.ret = threw]
       ELSE StoreInfo([m EXCEPT !.log = Got(m.log, "named")], info, t)

MetaIds == {"tt1", "tt2"}

TypeHints == {"", "movie", "series"}

MetaVarsRest == <<stamp, site, sub, race>>

CallInfo ==
    /\ meta.pc \in {"idle", "returned", "threw"}
    /\ meta.calls < MaxMetaCalls
    /\ \E imdbId \in MetaIds, typeHint \in TypeHints, d \in {0, 1} :
         /\ meta' = BeginInfo(meta, imdbId, typeHint, now, d)
         /\ now' = IF meta'.hit THEN now + d ELSE now
    /\ UNCHANGED ticks
    /\ UNCHANGED MetaVarsRest
    /\ UNCHANGED searchVars
    /\ UNCHANGED storeVars
    /\ UNCHANGED routeVars

CinemetaSettles ==
    /\ meta.pc = "cinemeta"
    /\ \E answer \in CinemetaAnswers : meta' = AfterCinemeta(meta, answer, now)
    /\ UNCHANGED <<now, ticks>>
    /\ UNCHANGED MetaVarsRest
    /\ UNCHANGED searchVars
    /\ UNCHANGED storeVars
    /\ UNCHANGED routeVars

PageSettles ==
    /\ meta.pc = "imdb"
    /\ \E page \in PageAnswers : meta' = AfterPage(meta, page, now)
    /\ UNCHANGED <<now, ticks>>
    /\ UNCHANGED MetaVarsRest
    /\ UNCHANGED searchVars
    /\ UNCHANGED storeVars
    /\ UNCHANGED routeVars

\* twelve hours pass between calls
MetaTick ==
    /\ meta.pc \in {"returned", "threw"}
    /\ ticks < MaxMetaTicks
    /\ now' = now + HalfDay
    /\ ticks' = ticks + 1
    /\ UNCHANGED meta
    /\ UNCHANGED MetaVarsRest
    /\ UNCHANGED searchVars
    /\ UNCHANGED storeVars
    /\ UNCHANGED routeVars

InitMeta ==
    /\ SearchIdle
    /\ PagesIdle
    /\ stamp = StampIdle /\ site = SiteIdle /\ sub = SubIdle /\ race = RaceIdle
    /\ meta = MetaStart

NextMeta == CallInfo \/ CinemetaSettles \/ PageSettles \/ MetaTick

SpecMeta == InitMeta /\ [][NextMeta]_vars


\* the requests of the call in progress, or of the last call, to the
\* metadata service
CinemetaAsked == SelectSeq(meta.log, LAMBDA q : q.to = "cinemeta")

PageAsked == SelectSeq(meta.log, LAMBDA q : q.to = "imdb")

KindsOf(typeHint) == IF typeHint = "" THEN <<"series", "movie">> ELSE <<typeHint>>

Nameless(q) == q.got \in {"failed", "noName"}

\* C22: a call that misses the cache asks the metadata service for the hinted
\* kind alone, or for series and then movie when there is no hint; it asks
\* for a kind only when every kind before it failed or had no name, returns
\* the first answer that has a name, and asks for the page only after every
\* kind failed or had no name.
C22_KindsInOrderThenPage ==
    (meta.calls > 0 /\ ~meta.hit) =>
        LET kinds == KindsOf(meta.typeHint)
            n == Len(CinemetaAsked)
        IN /\ 1 <= n /\ n <= Len(kinds)
           /\ \A i \in 1..n : CinemetaAsked[i].type = kinds[i]
           /\ \A i \in 1..n : meta.log[i].to = "cinemeta"
           /\ \A i \in 1..(n - 1) : Nameless(CinemetaAsked[i])
           /\ Len(PageAsked) <= 1
           /\ CinemetaAsked[n].got = "named" =>
                 /\ PageAsked = <<>>
                 /\ meta.pc = "returned"
                 /\ meta.ret.info.type = kinds[n]
                 /\ meta.ret.info.title # ""
           /\ PageAsked # <<>> =>
                 /\ n = Len(kinds)
                 /\ \A i \in 1..n : Nameless(CinemetaAsked[i])
           /\ (n = Len(kinds) /\ Nameless(CinemetaAsked[n])) => PageAsked # <<>>
           /\ (n < Len(kinds) /\ CinemetaAsked[n].got # "pending") =>
                 CinemetaAsked[n].got = "named"

\* without a hint, series failed, movie had no name, and the page gave the
\* title that was returned
C22_Witness ==
    /\ meta.calls > 0 /\ ~meta.hit
    /\ meta.typeHint = ""
    /\ Len(meta.log) = 3
    /\ meta.log[1] = [to |-> "cinemeta", type |-> "series", got |-> "failed"]
    /\ meta.log[2] = [to |-> "cinemeta", type |-> "movie", got |-> "noName"]
    /\ meta.log[3].to = "imdb"
    /\ meta.pc = "returned"
    /\ meta.ret.info.title = "Alien"


TwentyFourHours == 24 * 3600 * 1000

\* the current call is for an id that an earlier call stored
StoredEarlier ==
    /\ meta.calls > 0
    /\ meta.imdbId \in DOMAIN meta.stored
    /\ meta.stored[meta.imdbId].call < meta.calls

C23_WitnessRetry ==
    /\ meta.calls > 0 /\ meta.prev.threw /\ meta.prev.imdbId = meta.imdbId
    /\ meta.log # <<>>


\* C29: a lookup that takes the cache-hit branch returns the value stored and
\* never null, wherever the clock stands at cache.has and at cache.get, in
\* searchSubtitlesByQuery (so that aggregateSearch is given a list) and in
\* getIMDBInfo.
C29_HitReturnsStored ==
    /\ \A p \in ProviderSet :
          /\ prov[p].pc = "hit" => prov[p].pending.found
          /\ \A i \in DOMAIN prov[p].log : prov[p].log[i].src # "null"
    /\ (meta.pc = "returned" /\ meta.hit) =>
          /\ ~meta.ret.isNull
          /\ meta.imdbId \in DOMAIN meta.stored
          /\ meta.ret.info = meta.stored[meta.imdbId].info

\* the same with the clock standing still between cache.has and cache.get
C29_HitReturnsStoredSameInstant ==
    (meta.pc = "returned" /\ meta.hit /\ now = meta.at) =>
          /\ ~meta.ret.isNull
          /\ meta.ret.info = meta.stored[meta.imdbId].info

----------------------------------------------------------------------------
(* lib/base-url: getBaseUrl, and getBaseUrl of api/index.js.  A URL is a    *)
(* sequence of pieces; a "/" at its end is a piece of its own.  An unset    *)
(* environment variable or header is the empty sequence.                    *)

\* value.replace(/\/+$/, '')
RECURSIVE normalizeBaseUrl(_)
normalizeBaseUrl(value) ==
    IF value = <<>> THEN <<>>
    ELSE IF value[Len(value)] = "/"
    THEN normalizeBaseUrl(SubSeq(value, 1, Len(value) - 1))
    ELSE value

\* headers of the request: req && req.headers ? req.headers : {}
HeadersOf(request) ==
    IF request.defined /\ request.hasHeaders THEN request.headers
    ELSE [host |-> <<>>, forwardedHost |-> <<>>, forwardedProto |-> <<>>]

\* x || y for strings
OrElse(x, y) == IF x # <<>> THEN x ELSE y

\* lib/base-url: getBaseUrl(req)
getBaseUrl(env, request) ==
    LET headers == HeadersOf(request)
        protocol == OrElse(headers.forwardedProto, <<"https">>)
        host == OrElse(headers.host, OrElse(headers.forwardedHost, <<>>))
    IN IF env.PUBLIC_URL # <<>> THEN normalizeBaseUrl(env.PUBLIC_URL)
       ELSE IF env.VERCEL_URL # <<>> THEN <<"https://">> \o env.VERCEL_URL
       ELSE IF host = <<>> THEN <<>>
       ELSE protocol \o <<"://">> \o host

\* api/index.js: getBaseUrl(req), for a request that has headers
ApiGetBaseUrl(env, request) ==
    LET protocol == OrElse(request.headers.forwardedProto, <<"https">>)
        host == OrElse(request.headers.forwardedHost,
                       OrElse(request.headers.host, <<"undefined">>))
    IN IF env.PUBLIC_URL # <<>> THEN env.PUBLIC_URL
       ELSE IF env.VERCEL_URL # <<>> THEN <<"https://">> \o env.VERCEL_URL
       ELSE protocol \o <<"://">> \o host

Environments ==
    [PUBLIC_URL : {<<>>, <<"https://example.com">>, <<"https://example.com", "/">>,
                   <<"https://example.com", "/", "/">>},
     VERCEL_URL : {<<>>, <<"preview.vercel.app">>}]

HeaderSets ==
    [host : {<<>>, <<"subsunac.vercel.app">>},
     forwardedHost : {<<>>, <<"forwarded.example">>},
     forwardedProto : {<<>>, <<"http">>, <<"https">>}]

NoHeaders == [host |-> <<>>, forwardedHost |-> <<>>, forwardedProto |-> <<>>]

\* getBaseUrl(undefined), getBaseUrl({}) and requests with headers
SiteRequests ==
    {[defined |-> FALSE, hasHeaders |-> FALSE, headers |-> NoHeaders],
     [defined |-> TRUE, hasHeaders |-> FALSE, headers |-> NoHeaders]}
    \cup {[defined |-> TRUE, hasHeaders |-> TRUE, headers |-> h] : h \in HeaderSets}

GiveSite ==
    /\ site.pc = "idle"
    /\ \E env \in Environments, r \in SiteRequests :
         site' = [pc |-> "given", env |-> env, req |-> r]
    /\ UNCHANGED <<now, ticks, stamp, meta, sub, race>>
    /\ UNCHANGED searchVars
    /\ UNCHANGED storeVars
    /\ UNCHANGED routeVars

CallBaseUrl ==
    /\ site.pc = "given"
    /\ site' = [pc |-> "returned", env |-> site.env, req |-> site.req,
                url |-> getBaseUrl(site.env, site.req),
                apiUrl |-> IF site.req.hasHeaders
                           THEN ApiGetBaseUrl(site.env, site.req) ELSE <<>>]
    /\ UNCHANGED <<now, ticks, stamp, meta, sub, race>>
    /\ UNCHANGED searchVars
    /\ UNCHANGED storeVars
    /\ UNCHANGED routeVars

InitSite == SearchIdle /\ RouteIdle

NextSite == GiveSite \/ CallBaseUrl

SpecSite == InitSite /\ [][NextSite]_vars

\* the URL by the order of precedence: PUBLIC_URL, host, x-forwarded-host,
\* VERCEL_URL
ByPrecedence(env, headers) ==
    LET protocol == IF headers.forwardedProto = <<>> THEN <<"https">>
                    ELSE headers.forwardedProto
    IN IF env.PUBLIC_URL # <<>>
       THEN SelectSeq(env.PUBLIC_URL, LAMBDA piece : piece # "/")
       ELSE IF headers.host # <<>> THEN protocol \o <<"://">> \o headers.host
       ELSE IF headers.forwardedHost # <<>>
       THEN protocol \o <<"://">> \o headers.forwardedHost
       ELSE IF env.VERCEL_URL # <<>> THEN <<"https://">> \o env.VERCEL_URL
       ELSE <<>>

\* C24: getBaseUrl gives PUBLIC_URL without its trailing slashes when it is
\* set; otherwise the URL of the host header; otherwise that of
\* x-forwarded-host; and that of VERCEL_URL only when the request has
\* neither header.
C24_BaseUrlPrecedence ==
    site.pc = "returned" =>
        site.url = ByPrecedence(site.env, HeadersOf(site.req))

\* the same where VERCEL_URL is not set, or the request has neither header
C24_PrecedenceWithoutPreview ==
    (/\ site.pc = "returned"
     /\ \/ site.env.PUBLIC_URL # <<>>
        \/ site.env.VERCEL_URL = <<>>
        \/ /\ HeadersOf(site.req).host = <<>>
           /\ HeadersOf(site.req).forwardedHost = <<>>) =>
        site.url = ByPrecedence(site.env, HeadersOf(site.req))

----------------------------------------------------------------------------
(* index.js and api/index.js: the subtitles handler.  app says which of the *)
(* two programs runs: "local" is index.js, whose URLs begin with the        *)
(* constant PUBLIC_URL; "api" is api/index.js, whose middleware stores      *)
(* getBaseUrl(req) in the module's currentBaseUrl before the handler runs.  *)
(* Of a search result the model keeps provider and id.                      *)

RequestIds == {"A", "B"}

\* what the body of the try block came to: a value returned or an exception
Returned(subtitles) == [threw |-> FALSE, subtitles |-> subtitles]

Raised == [threw |-> TRUE, subtitles |-> <<>>]

\* the handler without its outer catch
Uncaught(outcome) == outcome

\* catch (error) { return { subtitles: [] }; }
Caught(outcome) == IF outcome.threw THEN Returned(<<>>) ELSE outcome

\* const PUBLIC_URL = process.env.PUBLIC_URL || `http://localhost:${PORT}`
LocalPublicUrl(env) == OrElse(env.PUBLIC_URL, <<"http://localhost:7000">>)

NoParsed == [ok |-> FALSE, imdbId |-> <<>>, type |-> "", season |-> 0, episode |-> 0]

\* parsed, as the handler reads it
ParsedOf(p) ==
    IF p.pc = "threw" THEN NoParsed
    ELSE [ok |-> TRUE, imdbId |-> p.out.imdbId, type |-> p.out.type,
          season |-> IF p.out.type = "series" THEN p.out.season ELSE 0,
          episode |-> IF p.out.type = "series" THEN p.out.episode ELSE 0]

NoMetaYet == [kind |-> "none", title |-> "", year |-> 0]

NoSearchYet == [kind |-> "none", results |-> <<>>]

NoCall == [to |-> "none", title |-> "", year |-> 0, season |-> 0, episode |-> 0,
           imdbId |-> <<>>, typeHint |-> ""]

SubRequestIdle ==
    [pc |-> "idle", headers |-> NoHeaders, id |-> <<>>, base |-> <<>>,
     parsed |-> NoParsed, metaGot |-> NoMetaYet, searchGot |-> NoSearchYet,
     call |-> NoCall, res |-> Returned(<<>>)]

Finish(r, outcome) == [r EXCEPT !.pc = "done", !.call = NoCall, !.res = outcome]

\* the call the handler awaits: getIMDBInfo(parsed.imdbId, parsed.type) in
\* index.js, getIMDBInfo(parsed.imdbId) in api/index.js
InfoCall(app, parsed) ==
    [NoCall EXCEPT !.to = "getIMDBInfo", !.imdbId = parsed.imdbId,
                   !.typeHint = IF app = "local" THEN parsed.type ELSE ""]

\* searchAllProviders(title, year, season, episode, imdbId) in index.js,
\* searchSubtitles(title, year, season, episode) in api/index.js
SearchCall(app, parsed, info) ==
    [to |-> IF app = "local" THEN "searchAllProviders" ELSE "searchSubtitles",
     title |-> info.title, year |-> info.year,
     season |-> parsed.season, episode |-> parsed.episode,
     imdbId |-> IF app = "local" THEN parsed.imdbId ELSE <<>>, typeHint |-> ""]

\* the handler from its call to its first await
AfterParsed(app, r, p) ==
    IF p.pc = "threw" THEN Finish(r, Caught(Raised))
    ELSE [r EXCEPT !.pc = "meta", !.parsed = ParsedOf(p),
                   !.call = InfoCall(app, ParsedOf(p))]

StartHandler(app, r, id) == AfterParsed(app, [r EXCEPT !.id = id], parseStremioId(id))

\* the handler after await getIMDBInfo: it rejected, or resolved with null
\* (reading imdbInfo.title throws) or with the metadata
AfterInfo(app, r, got) ==
    LET seen == [r EXCEPT !.metaGot = got]
    IN IF got.kind = "rejected" THEN Finish(seen, Returned(<<>>))
       ELSE IF got.kind = "null" THEN Finish(seen, Caught(Raised))
       ELSE [seen EXCEPT !.pc = "search", !.call = SearchCall(app, r.parsed, got)]

\* `${PUBLIC_URL}/subtitle/${result.provider}/${result.id}.srt` in index.js,
\* `${currentBaseUrl}/subtitle/${result.id}.srt` in api/index.js
SubtitleUrl(app, baseUrl, result) ==
    IF app = "local"
    THEN baseUrl \o <<"/subtitle/", result.provider, "/", result.id, ".srt">>
    ELSE baseUrl \o <<"/subtitle/", result.id, ".srt">>

\* searchResults.map((result, index) => ...)
MapResults(app, baseUrl, searchResults) ==
    [index \in DOMAIN searchResults |->
        [id |-> <<IF app = "local" THEN searchResults[index].provider ELSE "subsunacs",
                  "-", searchResults[index].id, "-", ToStr(index - 1)>>,
         url |-> SubtitleUrl(app, baseUrl, searchResults[index]),
         lang |-> "bul"]]

\* the handler after the await of the search
AfterSearch(app, r, got, baseUrl) ==
    LET seen == [r EXCEPT !.searchGot = got]
    IN IF got.kind = "rejected" THEN Finish(seen, Caught(Raised))
       ELSE IF Len(got.results) = 0 THEN Finish(seen, Returned(<<>>))
       ELSE Finish(seen, Returned(MapResults(app, baseUrl, got.results)))

SubStart(app, env) ==
    [app |-> app, env |-> env, currentBaseUrl |-> <<>>,
     reqs |-> [i \in RequestIds |-> SubRequestIdle]]

\* requests by two hosts
SubHeaders ==
    {[host |-> <<"a.example">>, forwardedHost |-> <<>>, forwardedProto |-> <<>>],
     [host |-> <<"b.example">>, forwardedHost |-> <<>>, forwardedProto |-> <<"http">>]}

SubEnvs ==
    {[PUBLIC_URL |-> <<>>, VERCEL_URL |-> <<>>],
     [PUBLIC_URL |-> <<"https://example.com">>, VERCEL_URL |-> <<>>]}

\* a film, an episode, and ids parseStremioId rejects
SubIds ==
    {<<"t", "t", "1">>, <<"t", "t", "1", ":", "1", ":", "2">>,
     <<"t", "t", "1", ":", "1">>, <<"t", "t", "1", ":", "x", ":", "2">>}

InfoOutcomes ==
    {[kind |-> "rejected", title |-> "", year |-> 0],
     [kind |-> "null", title |-> "", year |-> 0],
     [kind |-> "info", title |-> "The Matrix", year |-> 1999],
     [kind |-> "info", title |-> "Dark", year |-> 0]}

SearchOutcomes ==
    {[kind |-> "rejected", results |-> <<>>],
     [kind |-> "list", results |-> <<>>],
     [kind |-> "list", results |-> <<[provider |-> "subsunacs", id |-> "101"]>>],
     [kind |-> "list", results |-> <<[provider |-> "subsunacs", id |-> "101"],
                                     [provider |-> "subsab", id |-> "7"]>>]}

\* the base URL of a request: what getBaseUrl(req) gives for it
BaseOf(app, env, headers) ==
    IF app = "local" THEN LocalPublicUrl(env)
    ELSE ApiGetBaseUrl(env, [headers |-> headers])

SubVarsRest == <<now, ticks, stamp, meta, site, race>>

\* a request arrives: the middleware (api/index.js) and the handler up to its
\* first await
Arrive(i) ==
    /\ sub.reqs[i].pc = "idle"
    /\ i = "B" => sub.reqs["A"].pc # "idle"
    /\ \E headers \in SubHeaders, id \in SubIds :
         sub' = [sub EXCEPT
                   !.currentBaseUrl =
                       IF sub.app = "api" THEN ApiGetBaseUrl(sub.env, [headers |-> headers])
                       ELSE @,
                   !.reqs[i] =
                       StartHandler(sub.app,
                                    [@ EXCEPT !.headers = headers,
                                              !.base = BaseOf(sub.app, sub.env, headers)],
                                    id)]
    /\ UNCHANGED SubVarsRest
    /\ UNCHANGED searchVars
    /\ UNCHANGED storeVars
    /\ UNCHANGED routeVars

InfoSettles(i) ==
    /\ sub.reqs[i].pc = "meta"
    /\ \E got \in InfoOutcomes :
         sub' = [sub EXCEPT !.reqs[i] = AfterInfo(sub.app, @, got)]
    /\ UNCHANGED SubVarsRest
    /\ UNCHANGED searchVars
    /\ UNCHANGED storeVars
    /\ UNCHANGED routeVars

SearchSettles(i) ==
    /\ sub.reqs[i].pc = "search"
    /\ \E got \in SearchOutcomes :
         sub' = [sub EXCEPT !.reqs[i] =
                    AfterSearch(sub.app, @, got,
                                IF sub.app = "local" THEN LocalPublicUrl(sub.env)
                                ELSE sub.currentBaseUrl)]
    /\ UNCHANGED SubVarsRest
    /\ UNCHANGED searchVars
    /\ UNCHANGED storeVars
    /\ UNCHANGED routeVars

InitSub ==
    /\ SearchIdle
    /\ PagesIdle
    /\ stamp = StampIdle /\ meta = MetaIdle /\ site = SiteIdle /\ race = RaceIdle
    /\ \E app \in {"local", "api"}, env \in SubEnvs : sub = SubStart(app, env)

NextSub ==
    \E i \in RequestIds : Arrive(i) \/ InfoSettles(i) \/ SearchSettles(i)

SpecSub == InitSub /\ [][NextSub]_vars

\* what went wrong for a request, if anything did
ParseFailed(r) == r.pc = "done" /\ ~r.parsed.ok

InfoFailed(r) == r.metaGot.kind \in {"rejected", "null"}

SearchFailedOrEmpty(r) ==
    r.searchGot.kind = "rejected" \/ (r.searchGot.kind = "list" /\ r.searchGot.results = <<>>)

\* C25: the handler returns and never throws; it returns the empty list when
\* the id cannot be parsed, when the metadata cannot be had, and when the
\* search fails or finds nothing.
C25_EmptyListNeverThrows ==
    \A i \in RequestIds :
        LET r == sub.reqs[i]
        IN r.pc = "done" =>
              /\ ~r.res.threw
              /\ (ParseFailed(r) \/ InfoFailed(r) \/ SearchFailedOrEmpty(r)) =>
                    r.res.subtitles = <<>>
              /\ ~(ParseFailed(r) \/ InfoFailed(r) \/ SearchFailedOrEmpty(r)) =>
                    Len(r.res.subtitles) = Len(r.searchGot.results)

\* in index.js one request ended on an id that cannot be parsed and the
\* other on a search that rejected
C25_Witness ==
    /\ sub.app = "local"
    /\ sub.reqs["A"].pc = "done" /\ ParseFailed(sub.reqs["A"])
    /\ sub.reqs["B"].pc = "done" /\ sub.reqs["B"].searchGot.kind = "rejected"
    /\ sub.reqs["B"].res = Returned(<<>>)

\* C26: whatever the order in which requests of different hosts are handled,
\* every subtitle URL of a response begins with the base URL of the request
\* it answers.
C26_OwnBaseUrl ==
    \A i \in RequestIds :
        LET r == sub.reqs[i]
        IN (sub.app = "api" /\ r.pc = "done") =>
              \A k \in DOMAIN r.res.subtitles :
                  SubSeq(r.res.subtitles[k].url, 1, Len(r.base)) = r.base

\* the same for requests handled one after the other
C26_OwnBaseUrlInTurn ==
    \A i \in RequestIds :
        LET r == sub.reqs[i]
        IN (/\ sub.app = "api" /\ r.pc = "done"
            /\ sub.currentBaseUrl = r.base) =>
              \A k \in DOMAIN r.res.subtitles :
                  SubSeq(r.res.subtitles[k].url, 1, Len(r.base)) = r.base

----------------------------------------------------------------------------
(* lib/providers/subsunacs.js: two calls of searchSubtitlesByQuery in       *)
(* flight on the module's one cache                                         *)

SearcherIds == {"1", "2"}

PageOther == <<ResultCap + 5, ResultCap + 6>>

RaceOutcomes == UpstreamOutcomes \cup {[kind |-> "html", rows |-> PageOther]}

RaceTitle == <<"a">>

SearcherIdle ==
    [pc |-> "idle", key |-> <<>>, hit |-> FALSE, overlapped |-> FALSE,
     got |-> [kind |-> "none", rows |-> <<>>], isNull |-> FALSE, ret |-> <<>>]

RaceStart == [cache |-> EmptyMap, writers |-> <<>>,
              calls |-> [k \in SearcherIds |-> SearcherIdle]]

\* searchSubtitlesByQuery(searchTitle, year) up to its await, or to its
\* return on the cache-hit branch; overlapped is history: the other call was
\* awaiting its answer when this one began, or began while this one awaited
BeginQuery(r, k, year, t) ==
    LET key == CacheKey("subsunacs", RaceTitle, year, "")
        h == CacheHas(r.cache, key, t)
        g == CacheGet(h.cache, key, t)
        others == {j \in SearcherIds \ {k} : r.calls[j].pc = "http"}
    IN IF h.found
       THEN [r EXCEPT !.cache = g.cache,
                      !.calls[k] = [@ EXCEPT !.pc = "returned", !.key = key,
                                             !.hit = TRUE, !.isNull = ~g.found,
                                             !.ret = IF g.found THEN g.value ELSE <<>>]]
       ELSE [r EXCEPT !.cache = h.cache,
                      !.calls = [j \in SearcherIds |->
                                   IF j = k
                                   THEN [r.calls[j] EXCEPT !.pc = "http", !.key = key,
                                                           !.overlapped = others # {}]
                                   ELSE IF j \in others
                                   THEN [r.calls[j] EXCEPT !.overlapped = TRUE]
                                   ELSE r.calls[j]]]

\* the rest of the try block after the POST resolved, or the catch block
EndQuery(r, k, o, t) ==
    IF o.kind = "html"
    THEN [r EXCEPT !.cache = CacheSet(r.cache, r.calls[k].key,
                                      LimitPage(ParseListing("subsunacs", o.rows)),
                                      t, SearchTtl),
                   !.writers = Append(@, k),
                   !.calls[k] = [@ EXCEPT !.pc = "returned", !.got = o,
                                          !.ret = LimitPage(ParseListing("subsunacs",
                                                                         o.rows))]]
    ELSE [r EXCEPT !.calls[k] = [@ EXCEPT !.pc = "returned", !.got = o, !.ret = <<>>]]

RaceVarsRest == <<stamp, meta, site, sub>>

CallQuery(k) ==
    /\ race.calls[k].pc = "idle"
    /\ \E year \in {0, 1999} : race' = BeginQuery(race, k, year, now)
    /\ UNCHANGED <<now, ticks>>
    /\ UNCHANGED RaceVarsRest
    /\ UNCHANGED searchVars
    /\ UNCHANGED storeVars
    /\ UNCHANGED routeVars

PostSettles(k) ==
    /\ race.calls[k].pc = "http"
    /\ \E o \in RaceOutcomes : race' = EndQuery(race, k, o, now)
    /\ UNCHANGED <<now, ticks>>
    /\ UNCHANGED RaceVarsRest
    /\ UNCHANGED searchVars
    /\ UNCHANGED storeVars
    /\ UNCHANGED routeVars

\* an hour and a millisecond pass
RaceTick ==
    /\ ticks < MaxTicks
    /\ \E k \in SearcherIds : race.calls[k].pc # "idle"
    /\ now' = now + SearchTtl + 1
    /\ ticks' = ticks + 1
    /\ UNCHANGED race
    /\ UNCHANGED RaceVarsRest
    /\ UNCHANGED searchVars
    /\ UNCHANGED storeVars
    /\ UNCHANGED routeVars

InitRace ==
    /\ SearchIdle
    /\ PagesIdle
    /\ stamp = StampIdle /\ meta = MetaIdle /\ site = SiteIdle /\ sub = SubIdle
    /\ race = RaceStart

NextRace == (\E k \in SearcherIds : CallQuery(k) \/ PostSettles(k)) \/ RaceTick

SpecRace == InitRace /\ [][NextRace]_vars

\* both calls missed the same key while the other was in flight, and both
\* have returned
BothMissedTogether ==
    /\ \A k \in SearcherIds :
          /\ race.calls[k].pc = "returned"
          /\ ~race.calls[k].hit
          /\ race.calls[k].overlapped
    /\ race.calls["1"].key = race.calls["2"].key

\* the list a call parsed from its own answer
OwnList(k) ==
    IF race.calls[k].got.kind = "html"
    THEN LimitPage(ParseListing("subsunacs", race.calls[k].got.rows))
    ELSE <<>>

\* C27: when two calls for one key miss together, each returns the list it
\* parsed from its own answer, and the entry of the key is the whole list
\* one of them stored (the one that stored last), never a part of one or a
\* mixture of the two; there is no entry when neither stored.
C27_NoMixedEntry ==
    BothMissedTogether =>
        LET key == race.calls["1"].key
        IN /\ \A k \in SearcherIds : race.calls[k].ret = OwnList(k)
           /\ race.writers = <<>> => key \notin DOMAIN race.cache
           /\ race.writers # <<>> =>
                 /\ key \in DOMAIN race.cache
                 /\ race.cache[key].value = OwnList(race.writers[Len(race.writers)])
                 /\ \E k \in SearcherIds :
                       /\ race.calls[k].got.kind = "html"
                       /\ race.cache[key].value = race.calls[k].ret

\* both calls stored different lists, the second to begin first, and the
\* entry is the list of the first to begin
C27_Witness ==
    /\ BothMissedTogether
    /\ race.writers = <<"2", "1">>
    /\ race.calls["1"].ret # race.calls["2"].ret
    /\ race.calls["1"].ret # <<>> /\ race.calls["2"].ret # <<>>
    /\ race.cache[race.calls["1"].key].value = race.calls["1"].ret

----------------------------------------------------------------------------
(* lib/providers: getDownloadUrl of the registered providers                *)

\* BASE_URL of lib/providers/subsunacs.js and of lib/providers/subsab.js
ProviderBaseUrl(provider) ==
    IF provider = "subsunacs" THEN "https://subsunacs.net" ELSE "http://subs.sab.bz"

\* getProvider(provider).getDownloadUrl(subtitleId)
getDownloadUrl(provider, subtitleId) ==
    IF provider = "subsunacs"
    THEN <<ProviderBaseUrl(provider) \o "/getentry.php?id=", subtitleId, "&ei=0">>
    ELSE <<ProviderBaseUrl(provider) \o "/index.php?act=download&id=", subtitleId>>

\* C28: for a registered provider and a numeric id, the URL the proxy
\* requests from the origin is the URL the provider's getDownloadUrl gives
\* for that id.
C28_ProxyRequestsDownloadUrl ==
    (proxy.pc \in {"awaiting", "responded"} /\ proxy.requests # <<>>) =>
        proxy.requests = <<getDownloadUrl(proxy.provider, proxy.id)>>

\* the same for subsunacs alone
C28_SubsunacsRequestsDownloadUrl ==
    (/\ proxy.pc \in {"awaiting", "responded"} /\ proxy.requests # <<>>
     /\ proxy.provider = "subsunacs") =>
        proxy.requests = <<getDownloadUrl(proxy.provider, proxy.id)>>


----------------------------------------------------------------------------
\* fetchSubtitle under its timer: the callback of req.setTimeout runs when the
\* 25 seconds have passed, whatever else has happened to the request

SpecFetchFair == InitFetch /\ [][NextFetch]_vars /\ WF_vars(FetchTimeout)

FetchPending == Fetching /\ proxy.fetch.settled = "pending"

FetchSettled == Fetching /\ proxy.fetch.settled # "pending"

\* a settled promise keeps its outcome and its value
SettledStays ==
    FetchSettled =>
        /\ proxy'.fetch.settled = proxy.fetch.settled
        /\ proxy'.fetch.data = proxy.fetch.data
        /\ proxy'.fetch.resolved

\* C30: every call of fetchSubtitle settles, whatever the order of the data,
\* end, response-error, request-error and timeout events, given that the
\* timeout callback runs; it settles once, the outcome never changing
\* afterwards. A response error before any chunk leaves the call pending only
\* until the timeout rejects it.
C30_SettlesExactlyOnce ==
    /\ FetchPending ~> FetchSettled
    /\ [][SettledStays]_vars

\* a response error came before any chunk, settled nothing, and the timeout
\* then rejected the call
C30_Witness ==
    /\ Fetching
    /\ proxy.fetch.events = <<"response", "responseError", "timeout">>
    /\ proxy.fetch.chunks = <<>>
    /\ proxy.fetch.settled = "rejected"

====
